---------------------------- MODULE Spec2Model ----------------------------
(***************************************************************************)
(* Model of the particle physics engine of animated-backgrounds            *)
(* (src/src/utils/physicsEngine.js): Vector2D, PhysicsParticle,            *)
(* SpatialGrid and PhysicsEngine.                                          *)
(*                                                                         *)
(* JavaScript numbers are modelled as fixed-point integers: the integer n  *)
(* stands for the number n / Unit.  Results that are not a multiple of     *)
(* 1/Unit are rounded to the nearest one, as a floating-point operation    *)
(* rounds to the nearest representable number.  The three non-finite       *)
(* numbers (Infinity, -Infinity, NaN) are kept, with their arithmetic.     *)
(***************************************************************************)
EXTENDS Integers, Sequences, FiniteSets, TLC

(***************************************************************************)
(* Numbers                                                                 *)
(***************************************************************************)

\* Resolution of the fixed-point numbers: 1/60 (the engine's timeStep), 0.8,
\* 0.98 and 0.99 (the particle's coefficients) are all multiples of 1/Unit.
Unit == 60 * 10

\* The non-finite numbers, outside the range of every finite value of the model.
Infinity == 2 * (10 ^ 9)
NaN == Infinity + 1

Finite(a) == a # NaN /\ a # Infinity /\ a # (0 - Infinity)

Abs(a) == IF a < 0 THEN 0 - a ELSE a

Max(a, b) == IF a >= b THEN a ELSE b

Min(a, b) == IF a <= b THEN a ELSE b

Sign(a) == IF a < 0 THEN 0 - 1 ELSE 1

\* a / b for integers, b # 0, rounded to the nearest integer (ties away from 0).
RDiv(a, b) ==
    LET n == Abs(a)
        d == Abs(b)
        q == n \div d
        r == n % d
        m == IF 2 * r >= d THEN q + 1 ELSE q
    IN  IF Sign(a) = Sign(b) THEN m ELSE 0 - m

\* Integer square root of n >= 0, rounded to the nearest integer.
RECURSIVE SqrtSearch(_, _, _)
SqrtSearch(n, lo, hi) ==
    IF lo >= hi THEN lo
    ELSE LET mid == (lo + hi + 1) \div 2
         IN  IF mid * mid <= n THEN SqrtSearch(n, mid, hi)
             ELSE SqrtSearch(n, lo, mid - 1)

SqrtInt(n) ==
    LET r == SqrtSearch(n, 0, Min(n, 46340))
    IN  IF n - r * r > r THEN r + 1 ELSE r

\* The arithmetic of JavaScript numbers: +, unary -, -, *, /, Math.sqrt,
\* Math.min, Math.floor and the comparisons (false whenever NaN takes part).
Add(a, b) ==
    IF a = NaN \/ b = NaN THEN NaN
    ELSE IF ~Finite(a) THEN (IF ~Finite(b) /\ b # a THEN NaN ELSE a)
    ELSE IF ~Finite(b) THEN b
    ELSE a + b

Neg(a) == IF a = NaN THEN NaN ELSE 0 - a

Sub(a, b) == Add(a, Neg(b))

Mul(a, b) ==
    IF a = NaN \/ b = NaN THEN NaN
    ELSE IF ~Finite(a) \/ ~Finite(b)
         THEN (IF a = 0 \/ b = 0 THEN NaN ELSE Sign(a) * Sign(b) * Infinity)
    ELSE RDiv(a * b, Unit)

Div(a, b) ==
    IF a = NaN \/ b = NaN THEN NaN
    ELSE IF ~Finite(a)
         THEN (IF ~Finite(b) THEN NaN ELSE Sign(a) * Sign(b) * Infinity)
    ELSE IF ~Finite(b) THEN 0
    ELSE IF b = 0 THEN (IF a = 0 THEN NaN ELSE Sign(a) * Infinity)
    ELSE RDiv(a * Unit, b)

Sqrt(a) ==
    IF a = NaN \/ a < 0 THEN NaN
    ELSE IF a = Infinity THEN Infinity
    ELSE SqrtInt(a * Unit)

MathMin(a, b) == IF a = NaN \/ b = NaN THEN NaN ELSE Min(a, b)

Lt(a, b) == a # NaN /\ b # NaN /\ a < b

Gt(a, b) == Lt(b, a)

Ge(a, b) == a # NaN /\ b # NaN /\ a >= b

\* Math.floor(a / cellSize) as an integer cell index (NaN stays NaN).
FloorDiv(a, c) ==
    LET q == Div(a, c)
    IN  IF ~Finite(q) THEN q ELSE a \div c

(***************************************************************************)
(* Vector2D                                                                *)
(***************************************************************************)

Vector2D(x, y) == [x |-> x, y |-> y]

add(v, w) == Vector2D(Add(v.x, w.x), Add(v.y, w.y))

subtract(v, w) == Vector2D(Sub(v.x, w.x), Sub(v.y, w.y))

multiply(v, scalar) == Vector2D(Mul(v.x, scalar), Mul(v.y, scalar))

divide(v, scalar) == Vector2D(Div(v.x, scalar), Div(v.y, scalar))

\* Math.sqrt(x*x + y*y).  The squares are taken at a resolution coarse enough
\* for the sum to stay in the range of the model's integers.
magnitude(v) ==
    IF v.x = NaN \/ v.y = NaN THEN NaN
    ELSE IF ~Finite(v.x) \/ ~Finite(v.y) THEN Infinity
    ELSE LET ax == Abs(v.x)
             ay == Abs(v.y)
             k == (Max(ax, ay) \div 32768) + 1
         IN  k * SqrtInt((ax \div k) * (ax \div k) + (ay \div k) * (ay \div k))

\* normalize without the test of the magnitude.
normalize_unguarded(v) == divide(v, magnitude(v))

normalize(v) ==
    LET mag == magnitude(v)
    IN  IF Gt(mag, 0) THEN divide(v, mag) ELSE Vector2D(0, 0)

distanceTo(v, w) == magnitude(subtract(v, w))

dot(v, w) == Add(Mul(v.x, w.x), Mul(v.y, w.y))

(***************************************************************************)
(* PhysicsParticle                                                         *)
(***************************************************************************)

\* new PhysicsParticle(x, y, mass).  id stands for the object's identity (the
\* code compares particles by reference); color and alpha, which the engine
\* never reads, are left out.
PhysicsParticle(id, x, y, mass) ==
    [id |-> id,
     position |-> Vector2D(x, y),
     velocity |-> Vector2D(0, 0),
     acceleration |-> Vector2D(0, 0),
     force |-> Vector2D(0, 0),
     mass |-> mass,
     radius |-> Mul(Sqrt(mass), 2 * Unit),
     restitution |-> (8 * Unit) \div 10,
     friction |-> (98 * Unit) \div 100,
     damping |-> (99 * Unit) \div 100,
     lifespan |-> Infinity,
     age |-> 0,
     fixed |-> FALSE,
     active |-> TRUE,
     trail |-> << >>,
     maxTrailLength |-> 10]

applyForce(p, force) == [p EXCEPT !.force = add(p.force, force)]

\* updateTrail with pop() for shift(): the newest entry is the one evicted.
updateTrail_pop(p) ==
    LET pushed == Append(p.trail, p.position)
    IN  [p EXCEPT !.trail = IF Len(pushed) > p.maxTrailLength
                             THEN SubSeq(pushed, 1, Len(pushed) - 1) ELSE pushed]

updateTrail(p) ==
    LET pushed == Append(p.trail, p.position)
    IN  [p EXCEPT !.trail = IF Len(pushed) > p.maxTrailLength
                             THEN Tail(pushed) ELSE pushed]

\* update without the early return for a fixed particle.
update_integratesFixed(p, deltaTime) ==
    IF ~p.active THEN p
    ELSE LET age == Add(p.age, deltaTime)
         IN  IF Gt(age, p.lifespan)
             THEN [p EXCEPT !.age = age, !.active = FALSE]
             ELSE LET acceleration == divide(p.force, p.mass)
                      v1 == add(p.velocity, multiply(acceleration, deltaTime))
                      v2 == multiply(v1, Mul(p.friction, p.damping))
                      deltaPosition == multiply(v2, deltaTime)
                      moved == [p EXCEPT !.age = age,
                                         !.acceleration = acceleration,
                                         !.velocity = v2,
                                         !.position = add(p.position, deltaPosition)]
                  IN  [updateTrail(moved) EXCEPT !.force = Vector2D(0, 0)]

\* update without the reset of the force accumulator.
update_keepsForce(p, deltaTime) ==
    IF ~p.active \/ p.fixed THEN p
    ELSE LET age == Add(p.age, deltaTime)
         IN  IF Gt(age, p.lifespan)
             THEN [p EXCEPT !.age = age, !.active = FALSE]
             ELSE LET acceleration == divide(p.force, p.mass)
                      v1 == add(p.velocity, multiply(acceleration, deltaTime))
                      v2 == multiply(v1, Mul(p.friction, p.damping))
                      deltaPosition == multiply(v2, deltaTime)
                      moved == [p EXCEPT !.age = age,
                                         !.acceleration = acceleration,
                                         !.velocity = v2,
                                         !.position = add(p.position, deltaPosition)]
                  IN  updateTrail(moved)

\* update with the friction and damping multiplier left out.
update_noDecay(p, deltaTime) ==
    IF ~p.active \/ p.fixed THEN p
    ELSE LET age == Add(p.age, deltaTime)
         IN  IF Gt(age, p.lifespan)
             THEN [p EXCEPT !.age = age, !.active = FALSE]
             ELSE LET acceleration == divide(p.force, p.mass)
                      v1 == add(p.velocity, multiply(acceleration, deltaTime))
                      deltaPosition == multiply(v1, deltaTime)
                      moved == [p EXCEPT !.age = age,
                                         !.acceleration = acceleration,
                                         !.velocity = v1,
                                         !.position = add(p.position, deltaPosition)]
                  IN  [updateTrail(moved) EXCEPT !.force = Vector2D(0, 0)]

\* update with the friction and damping multiplier applied before the
\* velocity integration.
update_decayFirst(p, deltaTime) ==
    IF ~p.active \/ p.fixed THEN p
    ELSE LET age == Add(p.age, deltaTime)
         IN  IF Gt(age, p.lifespan)
             THEN [p EXCEPT !.age = age, !.active = FALSE]
             ELSE LET acceleration == divide(p.force, p.mass)
                      v1 == multiply(p.velocity, Mul(p.friction, p.damping))
                      v2 == add(v1, multiply(acceleration, deltaTime))
                      deltaPosition == multiply(v2, deltaTime)
                      moved == [p EXCEPT !.age = age,
                                         !.acceleration = acceleration,
                                         !.velocity = v2,
                                         !.position = add(p.position, deltaPosition)]
                  IN  [updateTrail(moved) EXCEPT !.force = Vector2D(0, 0)]

\* update with >= for > in the test of the lifespan.
update_expiresAtLifespan(p, deltaTime) ==
    IF ~p.active \/ p.fixed THEN p
    ELSE LET age == Add(p.age, deltaTime)
         IN  IF Ge(age, p.lifespan)
             THEN [p EXCEPT !.age = age, !.active = FALSE]
             ELSE LET acceleration == divide(p.force, p.mass)
                      v1 == add(p.velocity, multiply(acceleration, deltaTime))
                      v2 == multiply(v1, Mul(p.friction, p.damping))
                      deltaPosition == multiply(v2, deltaTime)
                      moved == [p EXCEPT !.age = age,
                                         !.acceleration = acceleration,
                                         !.velocity = v2,
                                         !.position = add(p.position, deltaPosition)]
                  IN  [updateTrail(moved) EXCEPT !.force = Vector2D(0, 0)]

update(p, deltaTime) ==
    IF ~p.active \/ p.fixed THEN p
    ELSE LET age == Add(p.age, deltaTime)
         IN  IF Gt(age, p.lifespan)
             THEN [p EXCEPT !.age = age, !.active = FALSE]
             ELSE LET acceleration == divide(p.force, p.mass)
                      v1 == add(p.velocity, multiply(acceleration, deltaTime))
                      v2 == multiply(v1, Mul(p.friction, p.damping))
                      deltaPosition == multiply(v2, deltaTime)
                      moved == [p EXCEPT !.age = age,
                                         !.acceleration = acceleration,
                                         !.velocity = v2,
                                         !.position = add(p.position, deltaPosition)]
                  IN  [updateTrail(moved) EXCEPT !.force = Vector2D(0, 0)]

collidesWith(p, other) ==
    Lt(distanceTo(p.position, other.position), Add(p.radius, other.radius))

\* resolveCollision with Math.max for Math.min in the combined restitution.
resolveCollision_maxRestitution(p, other) ==
    LET distance == distanceTo(p.position, other.position)
        minDistance == Add(p.radius, other.radius)
    IN  IF Ge(distance, minDistance) THEN <<p, other>>
        ELSE
        LET normal == normalize(subtract(other.position, p.position))
            overlap == Sub(minDistance, distance)
            separation == multiply(normal, Mul(overlap, Unit \div 2))
            p1 == IF ~p.fixed
                  THEN [p EXCEPT !.position = subtract(p.position, separation)]
                  ELSE p
            o1 == IF ~other.fixed
                  THEN [other EXCEPT !.position = add(other.position, separation)]
                  ELSE other
            relativeVelocity == subtract(o1.velocity, p1.velocity)
            velocityAlongNormal == dot(relativeVelocity, normal)
        IN  IF Gt(velocityAlongNormal, 0) THEN <<p1, o1>>
            ELSE
            LET e == Max(p1.restitution, o1.restitution)
                j0 == Mul(Neg(Add(Unit, e)), velocityAlongNormal)
                j == Div(j0, Add(Div(Unit, p1.mass), Div(Unit, o1.mass)))
                impulse == multiply(normal, j)
                p2 == IF ~p1.fixed
                      THEN [p1 EXCEPT !.velocity =
                                subtract(p1.velocity, divide(impulse, p1.mass))]
                      ELSE p1
                o2 == IF ~o1.fixed
                      THEN [o1 EXCEPT !.velocity =
                                add(o1.velocity, divide(impulse, o1.mass))]
                      ELSE o1
            IN  <<p2, o2>>

\* this.resolveCollision(other): the pair <<this, other>> after the call.
\* resolveCollision moving each particle by the whole overlap.
resolveCollision_wholeOverlap(p, other) ==
    LET distance == distanceTo(p.position, other.position)
        minDistance == Add(p.radius, other.radius)
    IN  IF Ge(distance, minDistance) THEN <<p, other>>
        ELSE
        LET normal == normalize(subtract(other.position, p.position))
            overlap == Sub(minDistance, distance)
            separation == multiply(normal, overlap)
            p1 == IF ~p.fixed
                  THEN [p EXCEPT !.position = subtract(p.position, separation)]
                  ELSE p
            o1 == IF ~other.fixed
                  THEN [other EXCEPT !.position = add(other.position, separation)]
                  ELSE other
        IN  <<p1, o1>>

\* resolveCollision dividing the impulse by the receiver's mass for both
\* particles.
resolveCollision_oneMass(p, other) ==
    LET distance == distanceTo(p.position, other.position)
        minDistance == Add(p.radius, other.radius)
    IN  IF Ge(distance, minDistance) THEN <<p, other>>
        ELSE
        LET normal == normalize(subtract(other.position, p.position))
            overlap == Sub(minDistance, distance)
            separation == multiply(normal, Mul(overlap, Unit \div 2))
            p1 == IF ~p.fixed
                  THEN [p EXCEPT !.position = subtract(p.position, separation)]
                  ELSE p
            o1 == IF ~other.fixed
                  THEN [other EXCEPT !.position = add(other.position, separation)]
                  ELSE other
            relativeVelocity == subtract(o1.velocity, p1.velocity)
            velocityAlongNormal == dot(relativeVelocity, normal)
        IN  IF Gt(velocityAlongNormal, 0) THEN <<p1, o1>>
            ELSE
            LET e == MathMin(p1.restitution, o1.restitution)
                j0 == Mul(Neg(Add(Unit, e)), velocityAlongNormal)
                j == Div(j0, Add(Div(Unit, p1.mass), Div(Unit, o1.mass)))
                impulse == multiply(normal, j)
                p2 == IF ~p1.fixed
                      THEN [p1 EXCEPT !.velocity =
                                subtract(p1.velocity, divide(impulse, p1.mass))]
                      ELSE p1
                o2 == IF ~o1.fixed
                      THEN [o1 EXCEPT !.velocity =
                                add(o1.velocity, divide(impulse, p1.mass))]
                      ELSE o1
            IN  <<p2, o2>>

resolveCollision(p, other) ==
    LET distance == distanceTo(p.position, other.position)
        minDistance == Add(p.radius, other.radius)
    IN  IF Ge(distance, minDistance) THEN <<p, other>>
        ELSE
        LET normal == normalize(subtract(other.position, p.position))
            overlap == Sub(minDistance, distance)
            separation == multiply(normal, Mul(overlap, Unit \div 2))
            p1 == IF ~p.fixed
                  THEN [p EXCEPT !.position = subtract(p.position, separation)]
                  ELSE p
            o1 == IF ~other.fixed
                  THEN [other EXCEPT !.position = add(other.position, separation)]
                  ELSE other
            relativeVelocity == subtract(o1.velocity, p1.velocity)
            velocityAlongNormal == dot(relativeVelocity, normal)
        IN  IF Gt(velocityAlongNormal, 0) THEN <<p1, o1>>
            ELSE
            LET e == MathMin(p1.restitution, o1.restitution)
                j0 == Mul(Neg(Add(Unit, e)), velocityAlongNormal)
                j == Div(j0, Add(Div(Unit, p1.mass), Div(Unit, o1.mass)))
                impulse == multiply(normal, j)
                p2 == IF ~p1.fixed
                      THEN [p1 EXCEPT !.velocity =
                                subtract(p1.velocity, divide(impulse, p1.mass))]
                      ELSE p1
                o2 == IF ~o1.fixed
                      THEN [o1 EXCEPT !.velocity =
                                add(o1.velocity, divide(impulse, o1.mass))]
                      ELSE o1
            IN  <<p2, o2>>

\* bounceOffBoundaries clamping to the walls themselves, not a radius inside.
bounceOffBoundaries_atWall(p, width, height) ==
    LET px == IF Lt(Sub(p.position.x, p.radius), 0)
              THEN [p EXCEPT !.position.x = 0,
                             !.velocity.x = Mul(p.velocity.x, Neg(p.restitution))]
              ELSE IF Gt(Add(p.position.x, p.radius), width)
              THEN [p EXCEPT !.position.x = width,
                             !.velocity.x = Mul(p.velocity.x, Neg(p.restitution))]
              ELSE p
    IN  IF Lt(Sub(px.position.y, px.radius), 0)
        THEN [px EXCEPT !.position.y = 0,
                        !.velocity.y = Mul(px.velocity.y, Neg(px.restitution))]
        ELSE IF Gt(Add(px.position.y, px.radius), height)
        THEN [px EXCEPT !.position.y = height,
                        !.velocity.y = Mul(px.velocity.y, Neg(px.restitution))]
        ELSE px

bounceOffBoundaries(p, width, height) ==
    LET px == IF Lt(Sub(p.position.x, p.radius), 0)
              THEN [p EXCEPT !.position.x = p.radius,
                             !.velocity.x = Mul(p.velocity.x, Neg(p.restitution))]
              ELSE IF Gt(Add(p.position.x, p.radius), width)
              THEN [p EXCEPT !.position.x = Sub(width, p.radius),
                             !.velocity.x = Mul(p.velocity.x, Neg(p.restitution))]
              ELSE p
    IN  IF Lt(Sub(px.position.y, px.radius), 0)
        THEN [px EXCEPT !.position.y = px.radius,
                        !.velocity.y = Mul(px.velocity.y, Neg(px.restitution))]
        ELSE IF Gt(Add(px.position.y, px.radius), height)
        THEN [px EXCEPT !.position.y = Sub(height, px.radius),
                        !.velocity.y = Mul(px.velocity.y, Neg(px.restitution))]
        ELSE px

\* wrapAroundBoundaries with <= and >= for < and >.
wrapAroundBoundaries_inclusive(p, width, height) ==
    LET px == IF ~Gt(p.position.x, Neg(p.radius))
              THEN [p EXCEPT !.position.x = Add(width, p.radius)]
              ELSE IF Ge(p.position.x, Add(width, p.radius))
              THEN [p EXCEPT !.position.x = Neg(p.radius)]
              ELSE p
    IN  IF ~Gt(px.position.y, Neg(px.radius))
        THEN [px EXCEPT !.position.y = Add(height, px.radius)]
        ELSE IF Ge(px.position.y, Add(height, px.radius))
        THEN [px EXCEPT !.position.y = Neg(px.radius)]
        ELSE px

wrapAroundBoundaries(p, width, height) ==
    LET px == IF Lt(p.position.x, Neg(p.radius))
              THEN [p EXCEPT !.position.x = Add(width, p.radius)]
              ELSE IF Gt(p.position.x, Add(width, p.radius))
              THEN [p EXCEPT !.position.x = Neg(p.radius)]
              ELSE p
    IN  IF Lt(px.position.y, Neg(px.radius))
        THEN [px EXCEPT !.position.y = Add(height, px.radius)]
        ELSE IF Gt(px.position.y, Add(height, px.radius))
        THEN [px EXCEPT !.position.y = Neg(px.radius)]
        ELSE px

(***************************************************************************)
(* SpatialGrid: a map from the cell key <<cellX, cellY>> to the particles   *)
(* (their identities) bucketed in the cell, in insertion order.            *)
(***************************************************************************)

\* this.spatialGrid = new SpatialGrid(50)
CellSize == 50

cellOf(p) ==
    <<FloorDiv(p.position.x, CellSize * Unit), FloorDiv(p.position.y, CellSize * Unit)>>

\* insert replacing the bucket of the cell instead of pushing onto it.
insert_overwrite(g, p) ==
    LET key == cellOf(p)
    IN  [k \in DOMAIN g \cup {key} |-> IF k = key THEN <<p.id>> ELSE g[k]]

insert(g, p) ==
    LET key == cellOf(p)
    IN  IF key \in DOMAIN g
        THEN [g EXCEPT ![key] = Append(@, p.id)]
        ELSE [k \in DOMAIN g \cup {key} |-> IF k = key THEN <<p.id>> ELSE g[k]]

\* The cells are visited for dx = -1, 0, 1 and, within each dx, dy = -1, 0, 1.
RECURSIVE nearbyFrom(_, _, _)
nearbyFrom(g, cell, n) ==
    IF n > 8 THEN << >>
    ELSE LET key == <<Add(cell[1], (n \div 3) - 1), Add(cell[2], (n % 3) - 1)>>
         IN  (IF key \in DOMAIN g THEN g[key] ELSE << >>) \o nearbyFrom(g, cell, n + 1)

\* getNearby looking in the particle's own cell only.
getNearby_ownCell(g, p) == IF cellOf(p) \in DOMAIN g THEN g[cellOf(p)] ELSE << >>

getNearby(g, p) == nearbyFrom(g, cellOf(p), 0)

(***************************************************************************)
(* PhysicsEngine: the phases of update, as functions of the collection     *)
(***************************************************************************)

\* A registered force callback is one of these kinds: "wind" is
\* particle => ForceGenerator.wind(), "null" is a callback that returns
\* null, and "cancel" is particle => particle.force.multiply(-1), whose
\* result depends on what was accumulated before it is called.  callForce
\* gives the callback's result.
ForceKinds == {"wind", "null"}

\* ForceGenerator.wind(strength, direction) for direction = 0, its default:
\* (Math.cos(0) * strength, Math.sin(0) * strength).
wind(strength) == Vector2D(Mul(Unit, strength), Mul(0, strength))

callForce(kind, p) ==
    IF kind = "wind" THEN [isNull |-> FALSE, value |-> wind(Unit)]
    ELSE IF kind = "cancel" THEN [isNull |-> FALSE, value |-> multiply(p.force, 0 - Unit)]
    ELSE [isNull |-> TRUE, value |-> Vector2D(0, 0)]

RECURSIVE applyCustomForces(_, _, _)
applyCustomForces(p, fs, k) ==
    IF k > Len(fs) THEN p
    ELSE LET force == callForce(fs[k], p)
         IN  applyCustomForces(IF ~force.isNull THEN applyForce(p, force.value) ELSE p,
                               fs, k + 1)

\* applyGlobalForces without the test of the fixed flag.
applyGlobalForces_fixedToo(ps, g, fs) ==
    [i \in DOMAIN ps |->
        IF ~ps[i].active THEN ps[i]
        ELSE applyCustomForces(applyForce(ps[i], multiply(g, ps[i].mass)), fs, 1)]

applyGlobalForces(ps, g, fs) ==
    [i \in DOMAIN ps |->
        IF ~ps[i].active \/ ps[i].fixed THEN ps[i]
        ELSE applyCustomForces(applyForce(ps[i], multiply(g, ps[i].mass)), fs, 1)]

\* The callback invocations this.forces.forEach makes for the particle p, from
\* the k-th callback on, in the order they are made: the particle, the index
\* of the callback and what it returned.
RECURSIVE customForceCalls(_, _, _)
customForceCalls(p, fs, k) ==
    IF k > Len(fs) THEN << >>
    ELSE LET force == callForce(fs[k], p)
         IN  <<[id |-> p.id, index |-> k, returned |-> force]>>
             \o customForceCalls(IF ~force.isNull THEN applyForce(p, force.value) ELSE p,
                                 fs, k + 1)

\* The callback invocations of one applyGlobalForces, from the particle at
\* index i on.
RECURSIVE globalForceCalls(_, _, _, _)
globalForceCalls(ps, g, fs, i) ==
    IF i > Len(ps) THEN << >>
    ELSE (IF ~ps[i].active \/ ps[i].fixed THEN << >>
          ELSE customForceCalls(applyForce(ps[i], multiply(g, ps[i].mass)), fs, 1))
         \o globalForceCalls(ps, g, fs, i + 1)

updateParticles(ps, deltaTime) ==
    [i \in DOMAIN ps |-> update(ps[i], deltaTime)]

RECURSIVE buildGrid(_, _, _)
buildGrid(g, ps, i) ==
    IF i > Len(ps) THEN g ELSE buildGrid(insert(g, ps[i]), ps, i + 1)

IndexOf(ps, id) == CHOOSE i \in DOMAIN ps : ps[i].id = id

\* nearby.forEach(other => ...) for the particle at index i, from the k-th
\* neighbour on.  st = [ps |-> the collection, log |-> the resolveCollision
\* calls made so far in this pass, as <<receiver id, argument id>>, queries |->
\* the getNearby results so far, as <<particle id, result>>].  The collection
\* after a resolveCollision call is computed once (the one element of a set)
\* and the rest of the loop works on it.
RECURSIVE forEachNearby(_, _, _, _)
forEachNearby(st, i, nearby, k) ==
    IF k > Len(nearby) THEN st
    ELSE LET particle == st.ps[i]
             j == IndexOf(st.ps, nearby[k])
             other == st.ps[j]
         IN  IF particle.id # other.id /\ collidesWith(particle, other)
             THEN CHOOSE result \in
                      { forEachNearby(next, i, nearby, k + 1) :
                          next \in { [ps |-> [st.ps EXCEPT ![i] = pair[1], ![j] = pair[2]],
                                      log |-> Append(st.log, <<particle.id, other.id>>),
                                      queries |-> st.queries] :
                                        pair \in {resolveCollision(particle, other)} } } : TRUE
             ELSE forEachNearby(st, i, nearby, k + 1)

RECURSIVE forEachParticle(_, _, _)
forEachParticle(st, g, i) ==
    IF i > Len(st.ps) THEN st
    ELSE CHOOSE result \in
             { forEachParticle(next, g, i + 1) :
                 next \in { forEachNearby([st EXCEPT !.queries =
                                                Append(@, <<st.ps[i].id, nearby>>)],
                                            i, nearby, 1) :
                               nearby \in {getNearby(g, st.ps[i])} } } : TRUE

\* The grid is cleared (the empty map) and rebuilt, then every particle is
\* tested against its neighbours.
handleCollisions(ps) ==
    CHOOSE result \in
        UNION { { [ps |-> st.ps, log |-> st.log, grid |-> g, queries |-> st.queries] :
                    st \in {forEachParticle([ps |-> ps, log |-> << >>, queries |-> << >>],
                                            g, 1)} } :
                  g \in {buildGrid(<< >>, ps, 1)} } : TRUE

\* applyBoundaryConditions without the 'wrap' case of the switch.
applyBoundaryConditions_noWrap(ps, mode, b) ==
    [i \in DOMAIN ps |->
        IF ~ps[i].active THEN ps[i]
        ELSE IF mode = "bounce" THEN bounceOffBoundaries(ps[i], b.width, b.height)
        ELSE ps[i]]

applyBoundaryConditions(ps, mode, b) ==
    [i \in DOMAIN ps |->
        IF ~ps[i].active THEN ps[i]
        ELSE IF mode = "bounce" THEN bounceOffBoundaries(ps[i], b.width, b.height)
        ELSE IF mode = "wrap" THEN wrapAroundBoundaries(ps[i], b.width, b.height)
        ELSE ps[i]]

\* The filter of removeInactiveParticles keeping every particle.
IsActive_always(p) == TRUE

IsActive(p) == p.active

\* removeInactiveParticles with the filtered array dropped instead of assigned.
removeInactiveParticles_unassigned(ps) == ps

\* removeInactiveParticles with the filtered array reversed.
removeInactiveParticles_reversed(ps) ==
    LET kept == SelectSeq(ps, IsActive)
    IN  [i \in DOMAIN kept |-> kept[Len(kept) + 1 - i]]

removeInactiveParticles(ps) == SelectSeq(ps, IsActive)

(***************************************************************************)
(* State                                                                   *)
(***************************************************************************)

VARIABLES
    particles,      \* this.particles: the collection, in array order
    forces,         \* this.forces: the registered callbacks, in order
    bounds,         \* this.bounds
    boundaryMode,   \* this.boundaryMode
    gravity,        \* this.gravity
    grid,           \* this.spatialGrid.grid
    pc,             \* "idle", or the phase of update that runs next
    deltaTime,      \* the argument of the update call in progress
    nextId,         \* the identity the next created particle gets
    call,           \* the call made last: "update" or "other"
    calls,          \* the number of calls made so far
    pre,            \* history: the collection when the last update was called
    phases,         \* history: the phases the last update has run, in order
                    \* (SpecParticle, SpecTrail: the methods called so far;
                    \* SpecForces: the callback invocations of the last
                    \* applyGlobalForces; SpecCollide: the getNearby results
                    \* of the last handleCollisions)
    resolved,       \* history: the resolveCollision calls of its collision pass
    created,        \* history: every particle as it was when it was added
    elapsed,        \* history: per particle, the sum of dt of the updates since
    visited,        \* history (SpecTrail): the positions update has integrated
    operand,        \* SpecVector: the vector and the scalar an operation is given
    result          \* SpecVector: what the operation returned

vars == <<particles, forces, bounds, boundaryMode, gravity, grid, pc, deltaTime,
          nextId, call, calls, pre, phases, resolved, created, elapsed, visited,
          operand, result>>

(***************************************************************************)
(* Inputs                                                                  *)
(***************************************************************************)

\* Bound of the model: the number of calls made to the engine in one run.
MaxCalls == 5

\* The time steps passed to update: 1/60 (the default timeStep) and 1.
DeltaTimes == {Unit \div 60, Unit}

\* The particles a caller adds: each is built by the constructor, then has
\* some public fields set before addParticle.
Mover(id, x, vx) ==
    [PhysicsParticle(id, x * Unit, 300 * Unit, Unit)
        EXCEPT !.velocity = Vector2D(vx * Unit, 0)]

ParticleInputs(id) ==
    { [Mover(id, 10, 0 - 50) EXCEPT !.radius = 5 * Unit],
      [Mover(id, 10, 0) EXCEPT !.fixed = TRUE, !.lifespan = Unit \div 60],
      [Mover(id, 12, 0 - 50) EXCEPT !.lifespan = Unit \div 60] }

BoundsInputs == { [width |-> 800 * Unit, height |-> 600 * Unit],
                  [width |-> 8 * Unit, height |-> 600 * Unit] }

BoundaryModes == {"bounce", "wrap", "none"}

(***************************************************************************)
(* PhysicsEngine: the operations                                           *)
(***************************************************************************)

Init ==
    /\ particles = << >>
    /\ forces = << >>
    /\ bounds = [width |-> 800 * Unit, height |-> 600 * Unit]
    /\ boundaryMode = "bounce"
    /\ gravity = Vector2D(0, 0)
    /\ grid = << >>
    /\ pc = "idle"
    /\ deltaTime = 0
    /\ nextId = 1
    /\ call = "other"
    /\ calls = 0
    /\ pre = << >>
    /\ phases = << >>
    /\ resolved = << >>
    /\ created = << >>
    /\ elapsed = << >>
    /\ visited = << >>
    /\ operand = << >>
    /\ result = << >>

\* What every call other than update does to the history.
Forget ==
    /\ calls < MaxCalls
    /\ calls' = calls + 1
    /\ call' = "other"
    /\ pre' = << >>
    /\ phases' = << >>
    /\ resolved' = << >>
    /\ UNCHANGED <<pc, deltaTime, visited, operand, result>>

AddParticle ==
    /\ pc = "idle"
    /\ \E p \in ParticleInputs(nextId) :
          /\ particles' = Append(particles, p)
          /\ created' = Append(created, p)
    /\ elapsed' = Append(elapsed, 0)
    /\ nextId' = nextId + 1
    /\ Forget
    /\ UNCHANGED <<forces, bounds, boundaryMode, gravity, grid>>

\* removeParticle(particle), for a particle of the collection (indexOf > -1)
\* or one that is not in it (no change).
RemoveParticle ==
    /\ pc = "idle"
    /\ \E id \in 1..(nextId - 1) :
          particles' = SelectSeq(particles, LAMBDA p : p.id # id)
    /\ Forget
    /\ UNCHANGED <<forces, bounds, boundaryMode, gravity, grid, nextId, created, elapsed>>

AddForce ==
    /\ pc = "idle"
    /\ \E f \in ForceKinds : forces' = Append(forces, f)
    /\ Forget
    /\ UNCHANGED <<particles, bounds, boundaryMode, gravity, grid, nextId, created, elapsed>>

SetBoundaryMode ==
    /\ pc = "idle"
    /\ \E mode \in BoundaryModes : boundaryMode' = mode
    /\ Forget
    /\ UNCHANGED <<particles, forces, bounds, gravity, grid, nextId, created, elapsed>>

SetBounds ==
    /\ pc = "idle"
    /\ \E b \in BoundsInputs : bounds' = b
    /\ Forget
    /\ UNCHANGED <<particles, forces, boundaryMode, gravity, grid, nextId, created, elapsed>>

Clear ==
    /\ pc = "idle"
    /\ particles' = << >>
    /\ Forget
    /\ UNCHANGED <<forces, bounds, boundaryMode, gravity, grid, nextId, created, elapsed>>

\* update(deltaTime): the call and its first phase, applyGlobalForces.
Update ==
    /\ pc = "idle"
    /\ calls < MaxCalls
    /\ calls' = calls + 1
    /\ \E dt \in DeltaTimes :
          /\ deltaTime' = dt
          /\ elapsed' = [i \in DOMAIN elapsed |-> elapsed[i] + dt]
    /\ particles' = applyGlobalForces(particles, gravity, forces)
    /\ pc' = "updateParticles"
    /\ call' = "update"
    /\ pre' = particles
    /\ phases' = <<"applyGlobalForces">>
    /\ resolved' = << >>
    /\ UNCHANGED <<forces, bounds, boundaryMode, gravity, grid, nextId, created, visited, operand, result>>

UpdateParticles ==
    /\ pc = "updateParticles"
    /\ particles' = updateParticles(particles, deltaTime)
    /\ pc' = "handleCollisions"
    /\ phases' = Append(phases, "updateParticles")
    /\ UNCHANGED <<forces, bounds, boundaryMode, gravity, grid, deltaTime, nextId,
                   call, calls, pre, resolved, created, elapsed, visited, operand, result>>

\* update with the boundary phase left out: collisions, then the prune.
HandleCollisions_thenPrune ==
    /\ pc = "handleCollisions"
    /\ LET r == handleCollisions(particles)
       IN  /\ particles' = r.ps
           /\ grid' = r.grid
           /\ resolved' = r.log
    /\ pc' = "removeInactiveParticles"
    /\ phases' = Append(phases, "handleCollisions")
    /\ UNCHANGED <<forces, bounds, boundaryMode, gravity, deltaTime, nextId,
                   call, calls, pre, created, elapsed, visited, operand, result>>

HandleCollisions ==
    /\ pc = "handleCollisions"
    /\ LET r == handleCollisions(particles)
       IN  /\ particles' = r.ps
           /\ grid' = r.grid
           /\ resolved' = r.log
    /\ pc' = "applyBoundaryConditions"
    /\ phases' = Append(phases, "handleCollisions")
    /\ UNCHANGED <<forces, bounds, boundaryMode, gravity, deltaTime, nextId,
                   call, calls, pre, created, elapsed, visited, operand, result>>

ApplyBoundaryConditions ==
    /\ pc = "applyBoundaryConditions"
    /\ particles' = applyBoundaryConditions(particles, boundaryMode, bounds)
    /\ pc' = "removeInactiveParticles"
    /\ phases' = Append(phases, "applyBoundaryConditions")
    /\ UNCHANGED <<forces, bounds, boundaryMode, gravity, grid, deltaTime, nextId,
                   call, calls, pre, resolved, created, elapsed, visited, operand, result>>

RemoveInactiveParticles ==
    /\ pc = "removeInactiveParticles"
    /\ particles' = removeInactiveParticles(particles)
    /\ pc' = "idle"
    /\ phases' = Append(phases, "removeInactiveParticles")
    /\ UNCHANGED <<forces, bounds, boundaryMode, gravity, grid, deltaTime, nextId,
                   call, calls, pre, resolved, created, elapsed, visited, operand, result>>

Next ==
    \/ AddParticle
    \/ RemoveParticle
    \/ AddForce
    \/ SetBoundaryMode
    \/ SetBounds
    \/ Clear
    \/ Update
    \/ UpdateParticles
    \/ HandleCollisions
    \/ ApplyBoundaryConditions
    \/ RemoveInactiveParticles

Spec == Init /\ [][Next]_vars

(***************************************************************************)
(* Properties of the engine (specification Spec)                           *)
(***************************************************************************)

Present(id) == \E i \in DOMAIN particles : particles[i].id = id

AfterUpdate == pc = "idle" /\ call = "update"

\* The particles whose sum of dt since they were added exceeds their lifespan.
Outlived == {id \in DOMAIN created : Gt(elapsed[id], created[id].lifespan)}

\* C1, as stated: between calls, every particle with a finite lifespan whose
\* sum of update dt exceeds the lifespan is absent from the collection.
C1_ExpiredAbsent ==
    pc = "idle" => \A id \in Outlived : ~Present(id)

\* C1, amended: between calls, every particle that is not fixed and whose sum
\* of update dt exceeds its finite lifespan is absent from the collection.
C1_ExpiredNonFixedAbsent ==
    pc = "idle" => \A id \in Outlived : ~created[id].fixed => ~Present(id)

\* C1 witness: an update has just pruned an active, non-fixed particle that
\* outlived its lifespan during that call.
C1_Witness ==
    /\ AfterUpdate
    /\ \E i \in DOMAIN pre :
          /\ pre[i].active /\ ~pre[i].fixed
          /\ pre[i].id \in Outlived
          /\ ~Gt(elapsed[pre[i].id] - deltaTime, pre[i].lifespan)
          /\ ~Present(pre[i].id)

\* The number of resolveCollision calls of the last collision pass between the
\* particles a and b, in either direction.
RECURSIVE CountPair(_, _, _, _)
CountPair(log, a, b, k) ==
    IF k > Len(log) THEN 0
    ELSE (IF log[k] = <<a, b>> \/ log[k] = <<b, a>> THEN 1 ELSE 0)
         + CountPair(log, a, b, k + 1)

\* C2, as stated: a collision pass resolves every unordered pair of distinct
\* particles that overlap when the pass begins exactly once, and no pair a
\* second time.  (Stated for the pairs whose centres differ: between
\* coincident centres the normal is the zero vector and a call moves nothing.)
C2_EachPairResolvedOnce ==
    [][pc = "handleCollisions" =>
          \A i, j \in DOMAIN particles :
              (i < j /\ particles[i].position # particles[j].position) =>
                 /\ CountPair(resolved', particles[i].id, particles[j].id, 1) <= 1
                 /\ collidesWith(particles[i], particles[j]) =>
                       CountPair(resolved', particles[i].id, particles[j].id, 1) = 1]_vars

\* The scenario of C4: bounds 800 x 600, mode bounce, no force, and a single
\* particle at (10, 300) with velocity (-50, 0), radius 5 and restitution 0.8
\* when update(1/60) was called; the call has returned.
C4_Scenario ==
    /\ AfterUpdate
    /\ deltaTime = Unit \div 60
    /\ bounds = [width |-> 800 * Unit, height |-> 600 * Unit]
    /\ boundaryMode = "bounce"
    /\ forces = << >>
    /\ Len(pre) = 1
    /\ pre[1].position = Vector2D(10 * Unit, 300 * Unit)
    /\ pre[1].velocity = Vector2D(0 - 50 * Unit, 0)
    /\ pre[1].radius = 5 * Unit
    /\ pre[1].restitution = (8 * Unit) \div 10
    /\ pre[1].active /\ ~pre[1].fixed

\* |a - b| <= eps
Near(a, b, eps) == Abs(a - b) <= eps

\* C4, as stated: in the scenario the particle ends with position.x = 5 and
\* velocity.x within 1 of 40.
C4_ClampedAndReflected ==
    C4_Scenario =>
        /\ Len(particles) = 1
        /\ particles[1].position.x = 5 * Unit
        /\ Near(particles[1].velocity.x, 40 * Unit, Unit)

\* C4, amended: in the scenario the step does not reach the left wall: the
\* particle ends with velocity.x = -50 * 0.98 * 0.99 (within 0.05 of -48.51),
\* position.x = 10 + velocity.x / 60 (within 0.01 of 9.19), still at least a
\* radius from the wall, so it is neither clamped nor reflected.
C4_NoWallContact ==
    C4_Scenario =>
        /\ Len(particles) = 1
        /\ Near(particles[1].velocity.x, 0 - (4851 * Unit) \div 100, Unit \div 20)
        /\ Near(particles[1].position.x, (919 * Unit) \div 100, Unit \div 100)
        /\ particles[1].position.x - particles[1].radius >= 0
        /\ particles[1].position.x =
              Add(pre[1].position.x, Mul(particles[1].velocity.x, deltaTime))

\* C4 witness: the scenario has been run.
C4_Witness == C4_Scenario /\ particles[1].position.x > 9 * Unit

\* The five phases of update, in the order of the calls in its body.
FivePhases ==
    <<"applyGlobalForces", "updateParticles", "handleCollisions",
      "applyBoundaryConditions", "removeInactiveParticles">>

\* C5: the phases an update has run are always the first of the five, in that
\* order, the next to run is the one that follows them, and update returns
\* after the fifth.
C5_PhaseOrder ==
    /\ call = "update" =>
          /\ Len(phases) \in 1..5
          /\ phases = SubSeq(FivePhases, 1, Len(phases))
          /\ pc = IF Len(phases) = 5 THEN "idle" ELSE FivePhases[Len(phases) + 1]
    /\ call # "update" => pc = "idle"

\* C5 witness: an update of a non-empty collection has returned.
C5_Witness == AfterUpdate /\ phases = FivePhases /\ Len(pre) > 0 /\ particles # pre

(***************************************************************************)
(* PhysicsParticle on its own (specification SpecParticle): the methods    *)
(* of particles[1] are called directly, resolveCollision with particles[2] *)
(* as its argument.  pre is the state before the last call, call the       *)
(* method called, deltaTime and bounds its arguments.                      *)
(***************************************************************************)

\* Bound of the model: the number of method calls in one run.
MaxMethodCalls == 2

\* new PhysicsParticle(x, y, mass) with its velocity set.
Body(id, x, y, mass, vx, vy) ==
    [PhysicsParticle(id, x, y, mass) EXCEPT !.velocity = Vector2D(vx, vy)]

\* Single particles, in and outside the rectangles of BoundaryArgs.
Positions ==
    { <<10 * Unit, 300 * Unit>>, <<Unit, 300 * Unit>>, <<0 - 8 * Unit, 300 * Unit>>,
      <<799 * Unit, 300 * Unit>>, <<810 * Unit, 605 * Unit>>, <<10 * Unit, 0 - 8 * Unit>> }

Velocities == { <<0 - 50 * Unit, 30 * Unit>>, <<50 * Unit, 0 - 30 * Unit>> }

Plain == { Body(1, xy[1], xy[2], Unit, v[1], v[2]) : xy \in Positions, v \in Velocities }

\* A particle with a force applied, and the same fixed, inactive, or with a
\* lifespan of 1/60.
Forced ==
    [Body(1, 10 * Unit, 300 * Unit, Unit, 0 - 50 * Unit, 30 * Unit)
        EXCEPT !.force = Vector2D(6 * Unit, 0 - 12 * Unit)]

\* A particle of mass 2 at rest at the origin, with friction = damping = 1
\* and the force (0, 9.81 * mass).
AtRest ==
    [PhysicsParticle(1, 0, 0, 2 * Unit)
        EXCEPT !.friction = Unit, !.damping = Unit,
               !.force = Vector2D(0, Mul((981 * Unit) \div 100, 2 * Unit))]

Special ==
    { Forced, AtRest,
      [Forced EXCEPT !.fixed = TRUE],
      [Forced EXCEPT !.active = FALSE],
      [Forced EXCEPT !.lifespan = Unit \div 60],
      [Forced EXCEPT !.fixed = TRUE, !.lifespan = Unit \div 60],
      [Forced EXCEPT !.radius = 5 * Unit] }

\* Pairs for resolveCollision: the second particle at distance 2 along x, at
\* distance 3 along (0.6, 0.8), at (1.7, 2.3) from the first, or at the same
\* place; both with radius 2 or 4; velocities along x or along (0.6, 0.8).
Offsets == { <<2 * Unit, 0, Unit, 0>>,
             <<(18 * Unit) \div 10, (24 * Unit) \div 10, (6 * Unit) \div 10, (8 * Unit) \div 10>>,
             <<(17 * Unit) \div 10, (23 * Unit) \div 10, (6 * Unit) \div 10, (8 * Unit) \div 10>>,
             <<0, 0, Unit, 0>> }

Speeds == { <<50, 0 - 25>>, <<50, 0>>, <<0 - 50, 50>> }

Masses == { <<Unit, Unit>>, <<4 * Unit, 4 * Unit>>, <<Unit, 4 * Unit>> }

Restitutions == { <<Unit, Unit>>, <<0, (8 * Unit) \div 10>>, <<(8 * Unit) \div 10, (8 * Unit) \div 10>> }

FixedFlags == { <<FALSE, FALSE>>, <<TRUE, FALSE>>, <<FALSE, TRUE>> }

Pair(o, sp, m, e, fx) ==
    << [Body(1, 10 * Unit, 300 * Unit, m[1], sp[1] * o[3], sp[1] * o[4])
           EXCEPT !.restitution = e[1], !.fixed = fx[1]],
       [Body(2, 10 * Unit + o[1], 300 * Unit + o[2], m[2], sp[2] * o[3], sp[2] * o[4])
           EXCEPT !.restitution = e[2], !.fixed = fx[2]] >>

Pairs ==
    { Pair(o, sp, m, e, fx) :
        o \in Offsets, sp \in Speeds, m \in Masses, e \in Restitutions, fx \in FixedFlags }

\* The (width, height) arguments of the boundary methods.
BoundaryArgs ==
    { [width |-> w * Unit, height |-> h * Unit] : w \in {8, 800}, h \in {4, 600} }

\* The force passed to applyForce.
ForceArgs == { Vector2D(0, 10 * Unit) }

InitParticle ==
    /\ particles \in {<<p>> : p \in Plain \cup Special} \cup Pairs
    /\ forces = << >>
    /\ bounds = [width |-> 800 * Unit, height |-> 600 * Unit]
    /\ boundaryMode = "none"
    /\ gravity = Vector2D(0, 0)
    /\ grid = << >>
    /\ pc = "idle"
    /\ deltaTime = 0
    /\ nextId = 3
    /\ call = "none"
    /\ calls = 0
    /\ pre = << >>
    /\ phases = << >>
    /\ resolved = << >>
    /\ created = << >>
    /\ elapsed = << >>
    /\ visited = << >>
    /\ operand = << >>
    /\ result = << >>

\* particles[1].<method>(...): what every call does to the history.
Called(method) ==
    /\ calls < MaxMethodCalls
    /\ calls' = calls + 1
    /\ call' = method
    /\ pre' = particles
    /\ phases' = Append(phases, method)
    /\ UNCHANGED <<forces, boundaryMode, gravity, grid, pc, nextId, resolved,
                   created, elapsed, visited, operand, result>>

CallApplyForce ==
    /\ \E f \in ForceArgs : particles' = [particles EXCEPT ![1] = applyForce(@, f)]
    /\ Called("applyForce")
    /\ UNCHANGED <<deltaTime, bounds>>

CallUpdate ==
    /\ \E dt \in DeltaTimes :
          /\ particles' = [particles EXCEPT ![1] = update(@, dt)]
          /\ deltaTime' = dt
    /\ Called("update")
    /\ UNCHANGED bounds

CallBounceOffBoundaries ==
    /\ \E b \in BoundaryArgs :
          /\ particles' = [particles EXCEPT ![1] = bounceOffBoundaries(@, b.width, b.height)]
          /\ bounds' = b
    /\ Called("bounceOffBoundaries")
    /\ UNCHANGED deltaTime

CallWrapAroundBoundaries ==
    /\ \E b \in BoundaryArgs :
          /\ particles' = [particles EXCEPT ![1] = wrapAroundBoundaries(@, b.width, b.height)]
          /\ bounds' = b
    /\ Called("wrapAroundBoundaries")
    /\ UNCHANGED deltaTime

CallResolveCollision ==
    /\ Len(particles) = 2
    /\ particles' = resolveCollision(particles[1], particles[2])
    /\ Called("resolveCollision")
    /\ UNCHANGED <<deltaTime, bounds>>

NextParticle ==
    \/ CallApplyForce
    \/ CallUpdate
    \/ CallBounceOffBoundaries
    \/ CallWrapAroundBoundaries
    \/ CallResolveCollision

SpecParticle == InitParticle /\ [][NextParticle]_vars

(***************************************************************************)
(* Properties of the particle (specification SpecParticle)                 *)
(***************************************************************************)

\* radius <= position.x <= width - radius and the same for y and height.
InsideBy(p, width, height) ==
    /\ Ge(p.position.x, p.radius) /\ Ge(Sub(width, p.radius), p.position.x)
    /\ Ge(p.position.y, p.radius) /\ Ge(Sub(height, p.radius), p.position.y)

\* C3, as stated: after bounceOffBoundaries(width, height), for any width and
\* height, the centre is in [radius, width - radius] x [radius, height - radius].
C3_BounceInside ==
    call = "bounceOffBoundaries" =>
        InsideBy(particles[1], bounds.width, bounds.height)

\* C3, amended: the same when the rectangle is at least a diameter wide and
\* high (width >= 2 * radius and height >= 2 * radius).
C3_BounceInsideWhenItFits ==
    (/\ call = "bounceOffBoundaries"
     /\ bounds.width >= 2 * pre[1].radius
     /\ bounds.height >= 2 * pre[1].radius) =>
        InsideBy(particles[1], bounds.width, bounds.height)

\* C3 witness: a call that clamped a particle from beyond the high walls of a
\* rectangle it fits in.
C3_Witness ==
    /\ call = "bounceOffBoundaries"
    /\ bounds.width >= 2 * pre[1].radius /\ bounds.height >= 2 * pre[1].radius
    /\ pre[1].position.x > bounds.width /\ pre[1].position.y > bounds.height
    /\ particles[1].position = Vector2D(bounds.width - pre[1].radius,
                                        bounds.height - pre[1].radius)

\* C6: update on a particle that is inactive or fixed changes nothing of it:
\* age, position, velocity, acceleration, force, trail and active included.
C6_UpdateNoOp ==
    (call = "update" /\ (~pre[1].active \/ pre[1].fixed)) => particles = pre

\* C6 witness: update was called on a fixed particle that carried a force, a
\* velocity and a lifespan the call's dt exceeds.
C6_Witness ==
    /\ call = "update"
    /\ pre[1].fixed
    /\ pre[1].force # Vector2D(0, 0) /\ pre[1].velocity # Vector2D(0, 0)
    /\ Gt(deltaTime, pre[1].lifespan)

\* The update call just made integrated the particle: it was active and not
\* fixed, and the call did not expire it.
Integrated == call = "update" /\ pre[1].active /\ ~pre[1].fixed /\ particles[1].active

\* C8: after every update call that integrates a particle its force is (0,0),
\* and the acceleration of a step that directly follows another step of the
\* same particle is zero: the force that drove the first is gone.
C8_ForceReset ==
    Integrated =>
        /\ particles[1].force = Vector2D(0, 0)
        /\ (Len(phases) >= 2 /\ phases[Len(phases) - 1] = "update") =>
               particles[1].acceleration = Vector2D(0, 0)

\* C8 witness: two updates in a row integrated a particle that carried a
\* force before the first.
C8_Witness ==
    /\ Integrated
    /\ phases = <<"update", "update">>
    /\ pre[1].acceleration # Vector2D(0, 0)
    /\ particles[1].position # pre[1].position

\* The pair before the last call overlapped, with distinct centres, neither
\* particle fixed, equal masses, velocities along the line of centres, and
\* approaching.
HeadOnEqualMass ==
    /\ Len(pre) = 2
    /\ collidesWith(pre[1], pre[2])
    /\ pre[1].position # pre[2].position
    /\ ~pre[1].fixed /\ ~pre[2].fixed
    /\ pre[1].mass = pre[2].mass
    /\ LET d == subtract(pre[2].position, pre[1].position)
       IN  /\ pre[1].velocity.x * d.y = pre[1].velocity.y * d.x
           /\ pre[2].velocity.x * d.y = pre[2].velocity.y * d.x
           /\ Lt(dot(subtract(pre[2].velocity, pre[1].velocity), d), 0)

\* The rounding allowed to a computed velocity: 1/100, against speeds of 25
\* and 50.
Rounding == Unit \div 100

\* Two vectors equal up to eps in each coordinate.
NearVector(u, v, eps) == Near(u.x, v.x, eps) /\ Near(u.y, v.y, eps)

\* C9: resolveCollision on such a pair swaps the two velocities when both
\* restitutions are 1, and leaves both particles with the mean of the two
\* velocities when the combined restitution (the smaller one) is 0; the
\* equalities are up to the rounding of the arithmetic.
C9_HeadOn ==
    (call = "resolveCollision" /\ HeadOnEqualMass) =>
        /\ (pre[1].restitution = Unit /\ pre[2].restitution = Unit) =>
              /\ NearVector(particles[1].velocity, pre[2].velocity, Rounding)
              /\ NearVector(particles[2].velocity, pre[1].velocity, Rounding)
        /\ Min(pre[1].restitution, pre[2].restitution) = 0 =>
              /\ NearVector(particles[1].velocity, particles[2].velocity, Rounding)
              /\ NearVector(multiply(particles[1].velocity, 2 * Unit),
                            add(pre[1].velocity, pre[2].velocity), 2 * Rounding)

\* The elastic case off the axes, along (0.6, 0.8), with velocities that
\* differ in size: here the swap is exact.
C9_ElasticCase ==
    /\ call = "resolveCollision" /\ HeadOnEqualMass
    /\ pre[1].position.y # pre[2].position.y
    /\ pre[1].restitution = Unit /\ pre[2].restitution = Unit
    /\ particles[1].velocity = pre[2].velocity
    /\ particles[1].velocity # pre[1].velocity

\* C9 witness: the inelastic case off the axes, one restitution 0 and the
\* other not; the two particles leave with one velocity, far from the ones
\* they came with.
C9_Witness ==
    /\ call = "resolveCollision" /\ HeadOnEqualMass
    /\ pre[1].position.y # pre[2].position.y
    /\ Min(pre[1].restitution, pre[2].restitution) = 0
    /\ pre[2].restitution > 0
    /\ particles[1].velocity = particles[2].velocity
    /\ ~NearVector(particles[1].velocity, pre[1].velocity, Unit)

\* -radius <= position.x <= width + radius and the same for y and height: the
\* particle is where wrapAroundBoundaries leaves it alone.
WithinWrap(p, width, height) ==
    /\ Ge(p.position.x, Neg(p.radius)) /\ Ge(Add(width, p.radius), p.position.x)
    /\ Ge(p.position.y, Neg(p.radius)) /\ Ge(Add(height, p.radius), p.position.y)

\* C10: a second wrapAroundBoundaries(w, h) changes nothing of the result of
\* the first, and a call on a particle within the bounds changes nothing.
C10_WrapIdempotent ==
    call = "wrapAroundBoundaries" =>
        /\ wrapAroundBoundaries(particles[1], bounds.width, bounds.height) = particles[1]
        /\ WithinWrap(pre[1], bounds.width, bounds.height) => particles = pre
        /\ particles[1].velocity = pre[1].velocity

\* C10 witness: a call that wrapped a particle on both axes.
C10_Witness ==
    /\ call = "wrapAroundBoundaries"
    /\ particles[1].position.x # pre[1].position.x
    /\ particles[1].position.y # pre[1].position.y

(***************************************************************************)
(* The trail (specification SpecTrail): one particle, updated again and    *)
(* again; visited records the position after every integration.            *)
(***************************************************************************)

\* Bound of the model: the number of update calls in one run.
MaxTrailUpdates == 12

TrailDeltaTimes == {Unit \div 60, Unit \div 30}

\* Particles as the constructor builds them (maxTrailLength 10), and with a
\* trail capacity of 2 or 0, or a lifespan of 5/60.
TrailInputs ==
    { [Body(1, 10 * Unit, 300 * Unit, Unit, v[1], v[2])
          EXCEPT !.maxTrailLength = cap, !.lifespan = life] :
        v \in Velocities,
        cap \in {PhysicsParticle(1, 0, 0, Unit).maxTrailLength, 2, 0},
        life \in {Infinity, (5 * Unit) \div 60} }

InitTrail ==
    /\ particles \in {<<p>> : p \in TrailInputs}
    /\ forces = << >>
    /\ bounds = [width |-> 800 * Unit, height |-> 600 * Unit]
    /\ boundaryMode = "none"
    /\ gravity = Vector2D(0, 0)
    /\ grid = << >>
    /\ pc = "idle"
    /\ deltaTime = 0
    /\ nextId = 2
    /\ call = "none"
    /\ calls = 0
    /\ pre = << >>
    /\ phases = << >>
    /\ resolved = << >>
    /\ created = << >>
    /\ elapsed = << >>
    /\ visited = << >>
    /\ operand = << >>
    /\ result = << >>

\* particles[1].update(dt)
TrailUpdate ==
    /\ calls < MaxTrailUpdates
    /\ calls' = calls + 1
    /\ \E dt \in TrailDeltaTimes :
          /\ particles' = <<update(particles[1], dt)>>
          /\ deltaTime' = dt
    /\ visited' = IF particles[1].active /\ ~particles[1].fixed /\ particles'[1].active
                  THEN Append(visited, particles'[1].position)
                  ELSE visited
    /\ call' = "update"
    /\ pre' = particles
    /\ phases' = Append(phases, "update")
    /\ UNCHANGED <<forces, bounds, boundaryMode, gravity, grid, pc, nextId, resolved,
                   created, elapsed, operand, result>>

NextTrail == TrailUpdate

SpecTrail == InitTrail /\ [][NextTrail]_vars

\* C7: the trail is never longer than maxTrailLength (10 for a particle the
\* constructor built), and it is the last maxTrailLength integrated positions
\* (all of them while there are fewer), oldest first.
C7_TrailFifo ==
    LET p == particles[1]
        n == Len(visited)
        k == Min(n, p.maxTrailLength)
    IN  /\ PhysicsParticle(1, 0, 0, Unit).maxTrailLength = 10
        /\ Len(p.trail) <= p.maxTrailLength
        /\ p.trail = SubSeq(visited, n - k + 1, n)

\* C7 witness: a particle with the default capacity after 12 integrations:
\* the two oldest positions have been evicted.
C7_Witness ==
    /\ Len(visited) = 12
    /\ particles[1].maxTrailLength = 10
    /\ Len(particles[1].trail) = 10
    /\ particles[1].trail[1] = visited[3]
    /\ particles[1].trail[10] = visited[12]
    /\ visited[1] # visited[3]

(***************************************************************************)
(* The spatial grid (specification SpecGrid): particles are inserted one   *)
(* by one, as handleCollisions does, and the grid is cleared; particles    *)
(* holds the particles inserted since the last clear.                      *)
(***************************************************************************)

\* Bound of the model: the number of insert and clear calls in one run.
MaxGridCalls == 3

\* Where the inserted particles are: two in one cell, one far away, one in
\* the cell diagonally next to the first, one two cells away, one on a cell
\* border, and one at negative coordinates.
GridPositions ==
    { <<10, 10>>, <<12, 12>>, <<500, 500>>, <<60, 60>>, <<110, 10>>, <<50, 0>>,
      <<0 - 10, 0 - 10>> }

InitGrid ==
    /\ particles = << >>
    /\ forces = << >>
    /\ bounds = [width |-> 800 * Unit, height |-> 600 * Unit]
    /\ boundaryMode = "bounce"
    /\ gravity = Vector2D(0, 0)
    /\ grid = << >>
    /\ pc = "idle"
    /\ deltaTime = 0
    /\ nextId = 1
    /\ call = "none"
    /\ calls = 0
    /\ pre = << >>
    /\ phases = << >>
    /\ resolved = << >>
    /\ created = << >>
    /\ elapsed = << >>
    /\ visited = << >>
    /\ operand = << >>
    /\ result = << >>

\* spatialGrid.insert(particle)
GridInsert ==
    /\ calls < MaxGridCalls
    /\ calls' = calls + 1
    /\ \E xy \in GridPositions :
          LET p == PhysicsParticle(nextId, xy[1] * Unit, xy[2] * Unit, Unit)
          IN  /\ grid' = insert(grid, p)
              /\ particles' = Append(particles, p)
    /\ nextId' = nextId + 1
    /\ call' = "insert"
    /\ UNCHANGED <<forces, bounds, boundaryMode, gravity, pc, deltaTime, pre, phases,
                   resolved, created, elapsed, visited, operand, result>>

\* spatialGrid.clear()
GridClear ==
    /\ calls < MaxGridCalls
    /\ calls' = calls + 1
    /\ grid' = << >>
    /\ particles' = << >>
    /\ call' = "clear"
    /\ UNCHANGED <<forces, bounds, boundaryMode, gravity, pc, deltaTime, nextId, pre,
                   phases, resolved, created, elapsed, visited, operand, result>>

NextGrid == GridInsert \/ GridClear

SpecGrid == InitGrid /\ [][NextGrid]_vars

\* The number of times id occurs in the sequence of ids s.
Occurrences(s, id) == Cardinality({k \in DOMAIN s : s[k] = id})

\* floor(x / cellSize) of p and q differ by at most 1, and so for y.
AdjacentCells(p, q) ==
    /\ Abs((p.position.x \div (CellSize * Unit)) - (q.position.x \div (CellSize * Unit))) <= 1
    /\ Abs((p.position.y \div (CellSize * Unit)) - (q.position.y \div (CellSize * Unit))) <= 1

At(p, x, y) == p.position = Vector2D(x * Unit, y * Unit)

\* C11: getNearby(p) holds each inserted particle whose cell is at most 1
\* from p's on each axis exactly once (p itself included) and no other; the
\* particles at (10,10) and (12,12) are in each other's result and one at
\* (500,500) is in neither.
C11_NearbyExact ==
    \A i \in DOMAIN particles :
        LET nearby == getNearby(grid, particles[i])
        IN  /\ \A j \in DOMAIN particles :
                  Occurrences(nearby, particles[j].id) =
                      IF AdjacentCells(particles[i], particles[j]) THEN 1 ELSE 0
            /\ \A k \in DOMAIN nearby : \E j \in DOMAIN particles : nearby[k] = particles[j].id
            /\ \A j \in DOMAIN particles :
                  /\ (At(particles[i], 10, 10) /\ At(particles[j], 12, 12)) =>
                        /\ Occurrences(nearby, particles[j].id) = 1
                        /\ Occurrences(getNearby(grid, particles[j]), particles[i].id) = 1
                  /\ ((At(particles[i], 10, 10) \/ At(particles[i], 12, 12))
                        /\ At(particles[j], 500, 500)) =>
                        Occurrences(nearby, particles[j].id) = 0

\* C11 witness: the three particles of the scenario are in the grid, and the
\* result for the first holds the second and not the third.
C11_Witness ==
    /\ Len(particles) = 3
    /\ At(particles[1], 10, 10) /\ At(particles[2], 12, 12) /\ At(particles[3], 500, 500)
    /\ getNearby(grid, particles[1]) = <<1, 2>>
    /\ getNearby(grid, particles[3]) = <<3>>

(***************************************************************************)
(* More properties of the particle (specification SpecParticle)            *)
(***************************************************************************)

\* The particle before the last call was at rest at the origin, with
\* friction = damping = 1 and a force (0, g * mass) for some g > 0.
AtRestScenario ==
    /\ pre[1].position = Vector2D(0, 0) /\ pre[1].velocity = Vector2D(0, 0)
    /\ pre[1].friction = Unit /\ pre[1].damping = Unit
    /\ pre[1].force.x = 0 /\ pre[1].force.y > 0

\* C12: an update that integrates the particle sets acceleration = force /
\* mass, velocity = (velocity + acceleration * dt) * friction * damping and
\* position = position + the new velocity * dt; a particle at rest at the
\* origin with force (0, g * m) and friction = damping = 1 ends with velocity
\* (0, g * dt) and position (0, g * dt * dt), up to rounding.
C12_UpdateIntegrates ==
    Integrated =>
        LET old == pre[1]
            new == particles[1]
            a == Vector2D(Div(old.force.x, old.mass), Div(old.force.y, old.mass))
            decay == Mul(old.friction, old.damping)
            vx == Mul(Add(old.velocity.x, Mul(a.x, deltaTime)), decay)
            vy == Mul(Add(old.velocity.y, Mul(a.y, deltaTime)), decay)
            g == Div(old.force.y, old.mass)
        IN  /\ new.acceleration = a
            /\ new.velocity = Vector2D(vx, vy)
            /\ new.position = Vector2D(Add(old.position.x, Mul(vx, deltaTime)),
                                       Add(old.position.y, Mul(vy, deltaTime)))
            /\ AtRestScenario =>
                  /\ new.velocity.x = 0 /\ new.position.x = 0
                  /\ Near(new.velocity.y, Mul(g, deltaTime), Rounding)
                  /\ Near(new.position.y, Mul(g, Mul(deltaTime, deltaTime)), Rounding)

\* C12 witness: the scenario with g = 9.81 and m = 2, after update(1): the
\* particle has velocity (0, 9.81) and position (0, 9.81).
C12_Witness ==
    /\ Integrated /\ AtRestScenario
    /\ deltaTime = Unit
    /\ pre[1].mass = 2 * Unit
    /\ particles[1].velocity = Vector2D(0, (981 * Unit) \div 100)
    /\ particles[1].position = Vector2D(0, (981 * Unit) \div 100)

(***************************************************************************)
(* Vector2D on its own (specification SpecVector): an operation is applied *)
(* to the vector operand.v, with operand.scalar as its argument, and       *)
(* result is what it returned.                                             *)
(***************************************************************************)

\* The vectors: zero, on the axes, (3,4) and (0.6,0.8), the smallest and a
\* large one, and two with a non-finite component.
VectorInputs ==
    { Vector2D(0, 0), Vector2D(Unit, 0), Vector2D(0, 0 - 2 * Unit),
      Vector2D(3 * Unit, 4 * Unit), Vector2D(0 - 3 * Unit, 4 * Unit),
      Vector2D((6 * Unit) \div 10, (8 * Unit) \div 10), Vector2D(1, 0),
      Vector2D(50 * Unit, 0 - 50 * Unit), Vector2D(Infinity, 0), Vector2D(NaN, Unit) }

ScalarInputs == { 0, Unit, 2 * Unit, 0 - (Unit \div 2) }

InitVector ==
    /\ operand \in [v : VectorInputs, scalar : ScalarInputs]
    /\ result = Vector2D(0, 0)
    /\ particles = << >>
    /\ forces = << >>
    /\ bounds = [width |-> 800 * Unit, height |-> 600 * Unit]
    /\ boundaryMode = "bounce"
    /\ gravity = Vector2D(0, 0)
    /\ grid = << >>
    /\ pc = "idle"
    /\ deltaTime = 0
    /\ nextId = 1
    /\ call = "none"
    /\ calls = 0
    /\ pre = << >>
    /\ phases = << >>
    /\ resolved = << >>
    /\ created = << >>
    /\ elapsed = << >>
    /\ visited = << >>

\* What a call leaves alone: the operations are pure.
Pure ==
    UNCHANGED <<operand, particles, forces, bounds, boundaryMode, gravity, grid, pc,
                deltaTime, nextId, calls, pre, phases, resolved, created, elapsed,
                visited>>

\* operand.v.multiply(operand.scalar)
CallMultiply ==
    /\ result' = multiply(operand.v, operand.scalar)
    /\ call' = "multiply"
    /\ Pure

\* operand.v.divide(operand.scalar)
CallDivide ==
    /\ result' = divide(operand.v, operand.scalar)
    /\ call' = "divide"
    /\ Pure

\* operand.v.magnitude()
CallMagnitude ==
    /\ result' = magnitude(operand.v)
    /\ call' = "magnitude"
    /\ Pure

\* operand.v.normalize()
CallNormalize ==
    /\ result' = normalize(operand.v)
    /\ call' = "normalize"
    /\ Pure

NextVector == CallMultiply \/ CallDivide \/ CallMagnitude \/ CallNormalize

SpecVector == InitVector /\ [][NextVector]_vars

FiniteVector(v) == Finite(v.x) /\ Finite(v.y)

\* C13, as stated: every division is guarded against a zero divisor, so an
\* operation of Vector2D that divides (divide, normalize) returns a vector
\* with finite components whenever its operands are finite, a zero scalar
\* included.
C13_DivisionsGuarded ==
    ((call = "divide" \/ call = "normalize") /\ FiniteVector(operand.v)) =>
        FiniteVector(result)

\* C18: normalize of the zero vector is (0,0), and normalize of any other
\* vector (of numbers) is the vector divided by its magnitude.
C18_NormalizeZero ==
    call = "normalize" =>
        /\ operand.v = Vector2D(0, 0) => result = Vector2D(0, 0)
        /\ (operand.v # Vector2D(0, 0) /\ operand.v.x # NaN /\ operand.v.y # NaN) =>
              /\ result.x = Div(operand.v.x, magnitude(operand.v))
              /\ result.y = Div(operand.v.y, magnitude(operand.v))
        /\ FiniteVector(operand.v) =>
              /\ FiniteVector(result)
              /\ operand.v # Vector2D(0, 0) => Near(magnitude(result), Unit, Rounding)

\* C18 witness: normalize was applied to the zero vector and returned it.
C18_Witness ==
    /\ call = "normalize"
    /\ operand.v = Vector2D(0, 0)
    /\ result = Vector2D(0, 0)

(***************************************************************************)
(* The emitters (specification SpecEmit): particles are constructed and    *)
(* added, and createExplosion and createFountain are called; operand holds *)
(* the arguments of the last emitter call and pre the collection before    *)
(* the last call.                                                          *)
(***************************************************************************)

\* Bound of the model: the number of calls in one run.
MaxEmitCalls == 2

\* Math.PI
PI == RDiv(314159 * Unit, 100000)

\* The angle createExplosion gives particle i of particleCount:
\* (i / particleCount) * Math.PI * 2.
ExplosionAngle(i, particleCount) ==
    Mul(Mul(Div(i * Unit, particleCount * Unit), PI), 2 * Unit)

\* The angle createFountain computes from the random number r:
\* -Math.PI/2 + (r - 0.5) * 0.5.
FountainAngle(r) == Add(Div(Neg(PI), 2 * Unit), Mul(Sub(r, Unit \div 2), Unit \div 2))

\* The values Math.random() returns: 0, 0.5 and the largest number below 1.
\* A call of an emitter draws its random numbers from one of these streams,
\* in order and cyclically.
RandomStreams ==
    { <<0>>, <<Unit - 1>>, <<0, Unit \div 2, Unit - 1, Unit \div 2>> }

Draw(stream, k) == stream[((k - 1) % Len(stream)) + 1]

\* Math.cos and Math.sin at the angles the emitters compute: the multiples
\* of a twelfth of a turn and -pi/2 - 0.25, -pi/2, -pi/2 + 0.25.
CosTwelfths ==
    <<Unit, RDiv(866 * Unit, 1000), Unit \div 2, 0, 0 - (Unit \div 2),
      0 - (RDiv(866 * Unit, 1000)), 0 - Unit, 0 - (RDiv(866 * Unit, 1000)),
      0 - (Unit \div 2), 0, Unit \div 2, RDiv(866 * Unit, 1000)>>

Trig ==
    { [angle |-> ExplosionAngle(t[2], t[1]),
       cos |-> CosTwelfths[((12 * t[2]) \div t[1]) + 1],
       sin |-> CosTwelfths[((((12 * t[2]) \div t[1]) + 9) % 12) + 1]] :
         t \in {u \in {1, 2, 3, 4} \X (0..3) : u[2] < u[1]} }
    \cup
    { [angle |-> FountainAngle(0),
       cos |-> 0 - ((2474 * Unit) \div 10000), sin |-> 0 - ((9689 * Unit) \div 10000)],
      [angle |-> FountainAngle(Unit \div 2), cos |-> 0, sin |-> 0 - Unit],
      [angle |-> FountainAngle(Unit - 1),
       cos |-> (2474 * Unit) \div 10000, sin |-> 0 - ((9689 * Unit) \div 10000)] }

MathCos(angle) == (CHOOSE t \in Trig : t.angle = angle).cos

MathSin(angle) == (CHOOSE t \in Trig : t.angle = angle).sin

\* Particle i (from 0) of createExplosion(center, particleCount, force); id
\* is the identity of the first particle, and the particle draws three
\* random numbers: for its mass, its lifespan and its color.
explosionParticle(center, particleCount, force, stream, id, i) ==
    LET angle == ExplosionAngle(i, particleCount)
        velocity == Vector2D(Mul(MathCos(angle), force), Mul(MathSin(angle), force))
        mass == Add(Mul(Draw(stream, 3 * i + 1), 2 * Unit), Unit)
        lifespan == Add(Mul(Draw(stream, 3 * i + 2), 3000 * Unit), 2000 * Unit)
    IN  [PhysicsParticle(id + i, center.x, center.y, mass)
            EXCEPT !.velocity = velocity, !.lifespan = lifespan]

\* createExplosion with every particle at the angle of the first.
createExplosion_sameAngle(ps, center, particleCount, force, stream, id) ==
    ps \o [k \in 1..particleCount |->
              [explosionParticle(center, particleCount, force, stream, id, 0)
                  EXCEPT !.id = id + k - 1]]

createExplosion(ps, center, particleCount, force, stream, id) ==
    ps \o [k \in 1..particleCount |->
              explosionParticle(center, particleCount, force, stream, id, k - 1)]

\* Particle i (from 0) of createFountain(source, particlesPerFrame), which
\* draws six random numbers: angle, speed, x, mass, lifespan and color.
fountainParticle(source, stream, id, i) ==
    LET angle == FountainAngle(Draw(stream, 6 * i + 1))
        speed == Add(Mul(Draw(stream, 6 * i + 2), 50 * Unit), 30 * Unit)
        velocity == Vector2D(Mul(MathCos(angle), speed), Mul(MathSin(angle), speed))
        x == Add(source.x, Mul(Sub(Draw(stream, 6 * i + 3), Unit \div 2), 10 * Unit))
        mass == Add(Draw(stream, 6 * i + 4), Unit \div 2)
        lifespan == Add(Mul(Draw(stream, 6 * i + 5), 4000 * Unit), 3000 * Unit)
    IN  [PhysicsParticle(id + i, x, source.y, mass)
            EXCEPT !.velocity = velocity, !.lifespan = lifespan]

createFountain(ps, source, particlesPerFrame, stream, id) ==
    ps \o [k \in 1..particlesPerFrame |-> fountainParticle(source, stream, id, k - 1)]

\* The arguments of the calls.
EmitterPoints == { Vector2D(400 * Unit, 300 * Unit) }

ExplosionCounts == 0..4

ExplosionForces == { 100 * Unit, 60 * Unit }

FountainCounts == {1, 3}

ConstructorMasses == { Unit, 0, 0 - Unit }

InitEmit ==
    /\ particles = << >>
    /\ operand = << >>
    /\ result = << >>
    /\ forces = << >>
    /\ bounds = [width |-> 800 * Unit, height |-> 600 * Unit]
    /\ boundaryMode = "bounce"
    /\ gravity = Vector2D(0, 0)
    /\ grid = << >>
    /\ pc = "idle"
    /\ deltaTime = 0
    /\ nextId = 1
    /\ call = "none"
    /\ calls = 0
    /\ pre = << >>
    /\ phases = << >>
    /\ resolved = << >>
    /\ created = << >>
    /\ elapsed = << >>
    /\ visited = << >>

\* What every call of SpecEmit does to the history.
Emitted(method) ==
    /\ calls < MaxEmitCalls
    /\ calls' = calls + 1
    /\ call' = method
    /\ pre' = particles
    /\ nextId' = nextId + Len(particles') - Len(particles)
    /\ UNCHANGED <<result, forces, bounds, boundaryMode, gravity, grid, pc, deltaTime,
                   phases, resolved, created, elapsed, visited>>

\* addParticle(new PhysicsParticle(x, y, mass))
AddConstructed ==
    /\ \E c \in EmitterPoints, mass \in ConstructorMasses :
          particles' = Append(particles, PhysicsParticle(nextId, c.x, c.y, mass))
    /\ operand' = << >>
    /\ Emitted("addParticle")

CreateExplosion ==
    /\ \E c \in EmitterPoints, n \in ExplosionCounts, f \in ExplosionForces,
          stream \in RandomStreams :
          /\ particles' = createExplosion(particles, c, n, f, stream, nextId)
          /\ operand' = [center |-> c, particleCount |-> n, force |-> f]
    /\ Emitted("createExplosion")

CreateFountain ==
    /\ \E c \in EmitterPoints, n \in FountainCounts, stream \in RandomStreams :
          /\ particles' = createFountain(particles, c, n, stream, nextId)
          /\ operand' = [source |-> c, particlesPerFrame |-> n]
    /\ Emitted("createFountain")

NextEmit == AddConstructed \/ CreateExplosion \/ CreateFountain

SpecEmit == InitEmit /\ [][NextEmit]_vars

\* The particles the last call added.
Added == SubSeq(particles, Len(pre) + 1, Len(particles))

\* C14, as stated: no particle ever has mass <= 0, whether it was constructed
\* by a caller or by an emitter.
C14_MassPositive ==
    \A i \in DOMAIN particles : Gt(particles[i].mass, 0)

\* The sum of the velocities of the particles of the sequence s.
RECURSIVE SumVelocities(_)
SumVelocities(s) ==
    IF s = << >> THEN Vector2D(0, 0) ELSE add(Head(s).velocity, SumVelocities(Tail(s)))

\* createExplosion(center, N, F) has just added exactly N particles: active,
\* at center, with a finite lifespan, speed F (to 1 in 100), and particle i
\* at the angle 2 * pi * i / N.
ExplosionAdded ==
    /\ Len(particles) = Len(pre) + operand.particleCount
    /\ SubSeq(particles, 1, Len(pre)) = pre
    /\ \A k \in DOMAIN Added :
          LET p == Added[k]
              angle == ExplosionAngle(k - 1, operand.particleCount)
          IN  /\ p.active
              /\ p.position = operand.center
              /\ Finite(p.lifespan)
              /\ Near(magnitude(p.velocity), Abs(operand.force), Mul(Abs(operand.force), Rounding))
              /\ p.velocity = Vector2D(Mul(MathCos(angle), operand.force),
                                       Mul(MathSin(angle), operand.force))

\* C17, as stated: createExplosion adds such particles, and the sum of their
\* velocities is zero for every N >= 1.
C17_ExplosionSymmetric ==
    call = "createExplosion" =>
        /\ ExplosionAdded
        /\ operand.particleCount >= 1 =>
              NearVector(SumVelocities(Added), Vector2D(0, 0), Rounding)

\* C17, amended: the sum of the velocities is zero (up to rounding) for
\* every N >= 2.
C17_ExplosionSymmetricFromTwo ==
    call = "createExplosion" =>
        /\ ExplosionAdded
        /\ operand.particleCount >= 2 =>
              NearVector(SumVelocities(Added), Vector2D(0, 0), Rounding)

\* C17 witness: an explosion of three particles into a collection that held
\* some already; the second flies at 120 degrees.
C17_Witness ==
    /\ call = "createExplosion"
    /\ operand.particleCount = 3
    /\ Len(pre) > 0
    /\ Len(particles) = Len(pre) + 3
    /\ Added[2].velocity.x < 0 /\ Added[2].velocity.y > 0
    /\ Added[1].mass # Added[2].mass

(***************************************************************************)
(* More properties of the engine (specification Spec)                      *)
(***************************************************************************)

\* getStats()
getStats(ps, mode, b) ==
    [particleCount |-> Len(ps),
     activeParticles |-> Len(SelectSeq(ps, IsActive)),
     boundaryMode |-> mode,
     bounds |-> b]

\* C15, as stated: during an update no phase changes the position or the
\* velocity of a particle that was fixed when the update began.
C15_FixedImmovable ==
    call = "update" =>
        \A i \in DOMAIN particles : \A j \in DOMAIN pre :
            (pre[j].id = particles[i].id /\ pre[j].fixed) =>
                /\ particles[i].position = pre[j].position
                /\ particles[i].velocity = pre[j].velocity

\* C16: when an update has returned the collection holds active particles
\* only and getStats reports particleCount = activeParticles; at every
\* moment activeParticles <= particleCount.
C16_OnlyActiveAfterUpdate ==
    LET stats == getStats(particles, boundaryMode, bounds)
    IN  /\ stats.activeParticles <= stats.particleCount
        /\ (call = "update" /\ pc = "idle") =>
              /\ \A i \in DOMAIN particles : particles[i].active
              /\ stats.particleCount = stats.activeParticles
              /\ stats.particleCount = Len(particles)

\* C16 witness: an update has returned that deactivated one particle of
\* several and pruned it.
C16_Witness ==
    /\ call = "update" /\ pc = "idle"
    /\ Len(pre) >= 2
    /\ Len(particles) = Len(pre) - 1
    /\ \E j \in DOMAIN pre : pre[j].active /\ ~Present(pre[j].id)

(***************************************************************************)
(* Properties of resolveCollision (specification SpecParticle)             *)
(***************************************************************************)

\* The pair before the last call overlapped.
Overlapping == Len(pre) = 2 /\ collidesWith(pre[1], pre[2])

\* The pair before the last call was separating: the relative velocity along
\* the normal from the receiver to the argument was > 0.
Separating ==
    Gt(dot(subtract(pre[2].velocity, pre[1].velocity),
           normalize(subtract(pre[2].position, pre[1].position))), 0)

\* C19, as stated: resolveCollision on an overlapping pair that is already
\* separating changes neither the positions nor the velocities.
C19_SeparatingSkipped ==
    (call = "resolveCollision" /\ Overlapping /\ Separating) =>
        /\ particles[1].position = pre[1].position
        /\ particles[2].position = pre[2].position
        /\ particles[1].velocity = pre[1].velocity
        /\ particles[2].velocity = pre[2].velocity

\* Half the overlap of the pair before the last call.
HalfOverlap ==
    Mul(Sub(Add(pre[1].radius, pre[2].radius),
            distanceTo(pre[1].position, pre[2].position)), Unit \div 2)

\* resolveCollision moved the receiver back and the argument forward along
\* the line of centres, each by half the overlap, and their distance is now
\* the sum of the radii, up to rounding.
MovedApart ==
    LET n == normalize(subtract(pre[2].position, pre[1].position))
    IN  /\ particles[1].position =
              Vector2D(Sub(pre[1].position.x, Mul(n.x, HalfOverlap)),
                       Sub(pre[1].position.y, Mul(n.y, HalfOverlap)))
        /\ particles[2].position =
              Vector2D(Add(pre[2].position.x, Mul(n.x, HalfOverlap)),
                       Add(pre[2].position.y, Mul(n.y, HalfOverlap)))
        /\ Near(distanceTo(particles[1].position, particles[2].position),
                Add(pre[1].radius, pre[2].radius), Rounding)

\* C20, as stated: for any overlapping pair of non-fixed particles the call
\* moves each by half the overlap in opposite directions, their distance is
\* then the sum of the radii, and collidesWith between them is false.
C20_SeparatedByHalf ==
    (call = "resolveCollision" /\ Overlapping /\ ~pre[1].fixed /\ ~pre[2].fixed) =>
        /\ MovedApart
        /\ ~collidesWith(particles[1], particles[2])

\* C20, amended: the same for a pair whose centres are distinct, the
\* distance being the sum of the radii up to rounding.
C20_SeparatedByHalfDistinctCentres ==
    (/\ call = "resolveCollision" /\ Overlapping /\ ~pre[1].fixed /\ ~pre[2].fixed
     /\ pre[1].position # pre[2].position) =>
        MovedApart

\* C20 witness: a pair at distance 3 along (0.6, 0.8), with radii 2 and 2,
\* has been moved apart to distance 4.
C20_Witness ==
    /\ call = "resolveCollision" /\ Overlapping /\ ~pre[1].fixed /\ ~pre[2].fixed
    /\ pre[1].position.y # pre[2].position.y
    /\ distanceTo(pre[1].position, pre[2].position) = 3 * Unit
    /\ distanceTo(particles[1].position, particles[2].position) = 4 * Unit
    /\ particles[1].position # pre[1].position
    /\ particles[2].position # pre[2].position


(***************************************************************************)
(* The trail and the phases of update (specification Spec)                 *)
(***************************************************************************)

\* The newest entry of the particle's trail is its position.
TrailHeadAtPosition(p) ==
    Len(p.trail) > 0 /\ p.trail[Len(p.trail)] = p.position

\* C21, as stated: when an update has returned, the newest trail entry of
\* every particle it integrated (the non-fixed particles still in the
\* collection) equals the particle's position.
C21_TrailHeadIsPosition ==
    AfterUpdate =>
        \A i \in DOMAIN particles :
            ~particles[i].fixed => TrailHeadAtPosition(particles[i])

(***************************************************************************)
(* The force phase on its own (specification SpecForces): callbacks are    *)
(* registered with addForce and applyGlobalForces is called on a given     *)
(* collection.  pre is the collection before the last applyGlobalForces    *)
(* and phases the callback invocations that call made.                     *)
(***************************************************************************)

\* Bound of the model: the number of addForce and applyGlobalForces calls.
MaxForceCalls == 3

\* The callbacks a caller registers.
CallbackInputs == {"wind", "null", "cancel"}

\* this.gravity, a public field: the constructor's (0, 0), or (0, 9.81).
GravityInputs == { Vector2D(0, 0), Vector2D(0, (981 * Unit) \div 100) }

\* Collections with active, fixed and inactive particles of mass 1 and 4,
\* with and without a force already accumulated.
Accumulating(id, mass) ==
    [PhysicsParticle(id, 10 * Unit, 300 * Unit, mass)
        EXCEPT !.force = Vector2D(6 * Unit, 0 - 12 * Unit)]

CollectionInputs ==
    { <<Accumulating(1, Unit),
        [Accumulating(2, Unit) EXCEPT !.fixed = TRUE],
        [Accumulating(3, 4 * Unit) EXCEPT !.active = FALSE]>>,
      <<[Accumulating(1, Unit) EXCEPT !.fixed = TRUE, !.active = FALSE],
        PhysicsParticle(2, 20 * Unit, 300 * Unit, 4 * Unit)>>,
      <<PhysicsParticle(1, 20 * Unit, 300 * Unit, Unit)>> }

InitForces ==
    /\ particles \in CollectionInputs
    /\ forces = << >>
    /\ bounds = [width |-> 800 * Unit, height |-> 600 * Unit]
    /\ boundaryMode = "bounce"
    /\ gravity \in GravityInputs
    /\ grid = << >>
    /\ pc = "idle"
    /\ deltaTime = 0
    /\ nextId = 4
    /\ call = "none"
    /\ calls = 0
    /\ pre = << >>
    /\ phases = << >>
    /\ resolved = << >>
    /\ created = << >>
    /\ elapsed = << >>
    /\ visited = << >>
    /\ operand = << >>
    /\ result = << >>

\* addForce(forceFunction)
RegisterForce ==
    /\ calls < MaxForceCalls
    /\ calls' = calls + 1
    /\ \E f \in CallbackInputs : forces' = Append(forces, f)
    /\ call' = "addForce"
    /\ UNCHANGED <<particles, bounds, boundaryMode, gravity, grid, pc, deltaTime, nextId,
                   pre, phases, resolved, created, elapsed, visited, operand, result>>

\* applyGlobalForces()
CallApplyGlobalForces ==
    /\ calls < MaxForceCalls
    /\ calls' = calls + 1
    /\ particles' = applyGlobalForces(particles, gravity, forces)
    /\ phases' = globalForceCalls(particles, gravity, forces, 1)
    /\ pre' = particles
    /\ call' = "applyGlobalForces"
    /\ UNCHANGED <<forces, bounds, boundaryMode, gravity, grid, pc, deltaTime, nextId,
                   resolved, created, elapsed, visited, operand, result>>

NextForces == RegisterForce \/ CallApplyGlobalForces

SpecForces == InitForces /\ [][NextForces]_vars

\* The invocations made for the particle id, in the order they were made.
InvocationsFor(id) == SelectSeq(phases, LAMBDA c : c.id = id)

\* f plus the values the invocations s returned, added from the k-th on; a
\* null result adds nothing.
RECURSIVE PlusReturned(_, _, _)
PlusReturned(f, s, k) ==
    IF k > Len(s) THEN f
    ELSE PlusReturned(IF s[k].returned.isNull THEN f ELSE add(f, s[k].returned.value),
                      s, k + 1)

\* C22: after applyGlobalForces, a particle that was inactive or fixed is
\* unchanged and no callback was invoked for it; for every other particle
\* each registered callback was invoked once, in registration order, only
\* the force accumulator changed, and it is the old accumulator plus
\* gravity * mass plus the non-null results in that order.  With the
\* callbacks wind then cancel the accumulator ends at zero, with cancel then
\* wind it ends at the wind force.
C22_GlobalForces ==
    call = "applyGlobalForces" =>
        /\ Len(particles) = Len(pre)
        /\ \A i \in DOMAIN pre :
              LET made == InvocationsFor(pre[i].id)
              IN  IF ~pre[i].active \/ pre[i].fixed
                  THEN particles[i] = pre[i] /\ made = << >>
                  ELSE /\ Len(made) = Len(forces)
                       /\ \A k \in DOMAIN made :
                             /\ made[k].index = k
                             /\ made[k].returned.isNull <=> forces[k] = "null"
                       /\ particles[i] = [pre[i] EXCEPT !.force = particles[i].force]
                       /\ particles[i].force =
                             PlusReturned(add(pre[i].force, multiply(gravity, pre[i].mass)),
                                          made, 1)
                       /\ forces = << >> =>
                             particles[i].force.y =
                                Add(pre[i].force.y, Mul(gravity.y, pre[i].mass))
                       /\ forces = <<"null">> =>
                             particles[i].force =
                                add(pre[i].force, multiply(gravity, pre[i].mass))
                       /\ forces = <<"wind", "cancel">> =>
                             particles[i].force = Vector2D(0, 0)
                       /\ forces = <<"cancel", "wind">> =>
                             particles[i].force = wind(Unit)

\* C22 witness: applyGlobalForces has run with a null callback followed by
\* wind, under gravity, on a collection with an active, a fixed and an
\* inactive particle, and the active one's accumulator has changed.
C22_Witness ==
    /\ call = "applyGlobalForces"
    /\ forces = <<"null", "wind">>
    /\ gravity.y > 0
    /\ Len(pre) = 3
    /\ particles[1].force # pre[1].force
    /\ pre[2].fixed /\ ~pre[3].active
    /\ Len(phases) = 2

(***************************************************************************)
(* The collision pass on its own (specification SpecCollide):              *)
(* handleCollisions is called on a given collection, to which particles    *)
(* are added.  pre is the collection before the last handleCollisions,     *)
(* resolved its resolveCollision calls and phases its getNearby results.   *)
(***************************************************************************)

\* Bound of the model: the number of addParticle and handleCollisions calls.
MaxCollideCalls == 2

\* A particle of mass 1 with its radius set to 12.5, a quarter of the cell
\* size, at rest.
Disc(id, x, y) ==
    [PhysicsParticle(id, x, y, Unit) EXCEPT !.radius = (CellSize * Unit) \div 4]

\* The collection with a disc at each of the places, in that order.
Discs(places) ==
    [i \in DOMAIN places |-> Disc(i, places[i][1], places[i][2])]

\* Collections: six discs in a row, the last two overlapping across the
\* border between the cells 0 and 1; two discs overlapping across that
\* border; two discs far apart; a disc overlapping an inactive one; none.
CollideInputs ==
    { Discs(<<<<99 * Unit, 51 * Unit>>, <<96 * Unit, 51 * Unit>>, <<85 * Unit, 51 * Unit>>,
              <<86 * Unit, 51 * Unit>>, <<74 * Unit, 51 * Unit>>,
              <<(495 * Unit) \div 10, 51 * Unit>>>>),
      Discs(<<<<49 * Unit, 51 * Unit>>, <<51 * Unit, 51 * Unit>>>>),
      Discs(<<<<10 * Unit, 10 * Unit>>, <<200 * Unit, 200 * Unit>>>>),
      [Discs(<<<<30 * Unit, 30 * Unit>>, <<40 * Unit, 30 * Unit>>>>)
          EXCEPT ![2].active = FALSE],
      << >> }

\* The particles added: a disc in the row or away from it, active or not.
AddedDiscs(id) ==
    { [Disc(id, xy[1] * Unit, xy[2] * Unit) EXCEPT !.active = a] :
        xy \in {<<60, 51>>, <<30, 40>>}, a \in BOOLEAN }

InitCollide ==
    /\ particles \in CollideInputs
    /\ forces = << >>
    /\ bounds = [width |-> 800 * Unit, height |-> 600 * Unit]
    /\ boundaryMode = "bounce"
    /\ gravity = Vector2D(0, 0)
    /\ grid = << >>
    /\ pc = "idle"
    /\ deltaTime = 0
    /\ nextId = Len(particles) + 1
    /\ call = "none"
    /\ calls = 0
    /\ pre = << >>
    /\ phases = << >>
    /\ resolved = << >>
    /\ created = << >>
    /\ elapsed = << >>
    /\ visited = << >>
    /\ operand = << >>
    /\ result = << >>

\* addParticle(particle)
AddDisc ==
    /\ calls < MaxCollideCalls
    /\ calls' = calls + 1
    /\ \E p \in AddedDiscs(nextId) : particles' = Append(particles, p)
    /\ nextId' = nextId + 1
    /\ call' = "addParticle"
    /\ UNCHANGED <<forces, bounds, boundaryMode, gravity, grid, pc, deltaTime, pre,
                   phases, resolved, created, elapsed, visited, operand, result>>

\* handleCollisions()
CallHandleCollisions ==
    /\ calls < MaxCollideCalls
    /\ calls' = calls + 1
    /\ LET r == handleCollisions(particles)
       IN  /\ particles' = r.ps
           /\ grid' = r.grid
           /\ resolved' = r.log
           /\ phases' = r.queries
    /\ pre' = particles
    /\ call' = "handleCollisions"
    /\ UNCHANGED <<forces, bounds, boundaryMode, gravity, pc, deltaTime, nextId,
                   created, elapsed, visited, operand, result>>

NextCollide == AddDisc \/ CallHandleCollisions

SpecCollide == InitCollide /\ [][NextCollide]_vars

\* The result of the getNearby call the last pass made for the particle id.
NearbyOf(id) == (CHOOSE q \in {phases[k] : k \in DOMAIN phases} : q[1] = id)[2]

\* The cell size is at least twice the diameter of every particle of ps.
CellSizeSuffices(ps) ==
    \A i \in DOMAIN ps : 2 * (2 * ps[i].radius) <= CellSize * Unit

\* C23, as stated: when the cell size is at least twice the largest diameter,
\* any two particles that overlapped when handleCollisions built the grid
\* are in each other's getNearby result of that pass.
C23_BroadPhaseComplete ==
    (call = "handleCollisions" /\ CellSizeSuffices(pre)) =>
        \A i, j \in DOMAIN pre :
            (i # j /\ collidesWith(pre[i], pre[j])) =>
                Occurrences(NearbyOf(pre[i].id), pre[j].id) >= 1

(***************************************************************************)
(* The grid across updates (specification Spec)                            *)
(***************************************************************************)

\* The number of entries of the grid g that are the particle id.
Bucketed(g, id) ==
    Cardinality({ck \in UNION {{<<key, k>> : k \in DOMAIN g[key]} : key \in DOMAIN g} :
                    g[ck[1]][ck[2]] = id})

\* The grid g holds the particles of ps, each once and in the cell of its
\* position, and nothing else.
GridOf(g, ps) ==
    /\ \A i \in DOMAIN ps :
          /\ Bucketed(g, ps[i].id) = 1
          /\ cellOf(ps[i]) \in DOMAIN g
          /\ Occurrences(g[cellOf(ps[i])], ps[i].id) = 1
    /\ \A key \in DOMAIN g : \A k \in DOMAIN g[key] :
          \E i \in DOMAIN ps : ps[i].id = g[key][k]

\* C24: in every update, the grid the neighbour queries of handleCollisions
\* work on holds exactly the particles then in the collection, each once and
\* in the cell of its position at that time, whatever the grid held before:
\* no particle removed, pruned or cleared earlier has an entry.
C24_GridRebuilt ==
    [][pc = "handleCollisions" =>
          /\ GridOf(grid', particles)
          /\ \A id \in DOMAIN created : ~Present(id) => Bucketed(grid', id) = 0]_vars

\* C24 witness: two particles were added and two updates called; the first
\* update had both in its grid and pruned one, and the grid the second has
\* just built holds the one that is left.
C24_Witness ==
    /\ calls = 4 /\ nextId = 3
    /\ call = "update" /\ pc = "applyBoundaryConditions"
    /\ elapsed[1] = elapsed[2] /\ elapsed[1] > deltaTime
    /\ Len(particles) = 1
    /\ \E id \in Outlived :
          /\ ~created[id].fixed
          /\ Gt(elapsed[id] - deltaTime, created[id].lifespan)
          /\ ~Present(id)
          /\ Bucketed(grid, id) = 0
    /\ Bucketed(grid, particles[1].id) = 1

(***************************************************************************)
(* The collection across an update (specification Spec)                    *)
(***************************************************************************)

\* The identities of the particles of ps, in order.
Ids(ps) == [i \in DOMAIN ps |-> ps[i].id]

\* C25: during and after an update the collection is a sub-sequence of the
\* collection the update was called on (the particles of it that are still
\* present, in the same order), so its length has not grown; and the length
\* of the collection grows only in addParticle, by the particle added.
C25_UpdateCreatesNothing ==
    [][/\ call' = "update" =>
             /\ Ids(particles') = SelectSeq(Ids(pre'), LAMBDA id : \E i \in DOMAIN particles' :
                                                              particles'[i].id = id)
             /\ Len(particles') <= Len(pre')
       /\ Len(particles') > Len(particles) =>
             /\ pc = "idle" /\ call' = "other"
             /\ nextId' = nextId + 1
             /\ Ids(particles') = Append(Ids(particles), nextId)]_vars

\* C25 witness: an update of three particles has returned with two of them,
\* the first and the last.
C25_Witness ==
    /\ AfterUpdate
    /\ Len(pre) = 3
    /\ Ids(particles) = <<pre[1].id, pre[3].id>>

(***************************************************************************)
(* Momentum in resolveCollision (specification SpecParticle)               *)
(***************************************************************************)

\* m1 * v1 + m2 * v2 of the two particles of ps.
Momentum(ps) ==
    add(multiply(ps[1].velocity, ps[1].mass), multiply(ps[2].velocity, ps[2].mass))

\* C26: resolveCollision between two overlapping particles, neither fixed,
\* leaves m1 * v1 + m2 * v2 as it was, up to the rounding of the arithmetic.
C26_MomentumConserved ==
    (call = "resolveCollision" /\ ~pre[1].fixed /\ ~pre[2].fixed
        /\ collidesWith(pre[1], pre[2])) =>
        NearVector(Momentum(particles), Momentum(pre), 2 * Rounding)

\* C26 witness: resolveCollision has changed the velocities of two
\* overlapping particles of masses 1 and 4 with different restitutions.
C26_Witness ==
    /\ call = "resolveCollision"
    /\ ~pre[1].fixed /\ ~pre[2].fixed
    /\ collidesWith(pre[1], pre[2])
    /\ pre[1].mass = Unit /\ pre[2].mass = 4 * Unit
    /\ pre[1].restitution # pre[2].restitution
    /\ particles[1].velocity # pre[1].velocity
    /\ particles[2].velocity # pre[2].velocity

(***************************************************************************)
(* Inactive particles in the collision pass (specification Spec)           *)
(***************************************************************************)

\* The particle id is the receiver or the argument of a resolveCollision
\* call of the last collision pass.
TookPart(id) == \E k \in DOMAIN resolved : resolved[k][1] = id \/ resolved[k][2] = id

\* C27, as stated: when the collision pass of an update has run, no particle
\* whose active flag is false has taken part in a collision resolution.
C27_InactiveTakesNoPart ==
    (call = "update" /\ pc = "applyBoundaryConditions") =>
        \A i \in DOMAIN particles : ~particles[i].active => ~TookPart(particles[i].id)

(***************************************************************************)
(* The velocity after a bounce (specification SpecParticle)                *)
(***************************************************************************)

\* C28, as stated: after bounceOffBoundaries has clamped the particle on an
\* axis, its velocity on that axis is not negative at the low wall and not
\* positive at the high wall.
C28_BounceVelocityInward ==
    call = "bounceOffBoundaries" =>
        LET before == pre[1]
            after == particles[1]
        IN  /\ before.position.x - before.radius < 0 => after.velocity.x >= 0
            /\ (before.position.x - before.radius >= 0
                  /\ before.position.x + before.radius > bounds.width) =>
                  after.velocity.x <= 0
            /\ before.position.y - before.radius < 0 => after.velocity.y >= 0
            /\ (before.position.y - before.radius >= 0
                  /\ before.position.y + before.radius > bounds.height) =>
                  after.velocity.y <= 0

(***************************************************************************)
(* The lifecycle of a particle (specification Spec)                        *)
(***************************************************************************)

\* C29: across every step of the engine, for a particle that stays in the
\* collection: an inactive particle stays inactive; its age does not
\* decrease; it turns inactive only in the updateParticles phase, and there
\* exactly when it is active, not fixed and its age plus dt is strictly
\* greater than its lifespan, the age before being at most the lifespan.
\* And when an update returns, every particle of the collection it was
\* called on that is still present is active.
C29_LifecycleOneWay ==
    [][/\ \A i \in DOMAIN particles : \A j \in DOMAIN particles' :
             particles[i].id = particles'[j].id =>
                LET before == particles[i]
                    after == particles'[j]
                    expires == /\ pc = "updateParticles"
                               /\ before.active /\ ~before.fixed
                               /\ Gt(Add(before.age, deltaTime), before.lifespan)
                IN  /\ ~before.active => ~after.active
                    /\ after.age >= before.age
                    /\ (before.active /\ ~after.active) <=> expires
                    /\ expires => /\ ~Gt(before.age, before.lifespan)
                                  /\ Gt(after.age, after.lifespan)
       /\ (call' = "update" /\ pc' = "idle") =>
             \A j \in DOMAIN particles' : particles'[j].active]_vars

\* C29 witness: an update has returned that left one particle active at an
\* age equal to its lifespan and removed another, which an earlier update
\* had left at that age and this one deactivated.
C29_Witness ==
    /\ AfterUpdate
    /\ \E i \in DOMAIN pre :
          /\ pre[i].active /\ ~pre[i].fixed
          /\ pre[i].age = pre[i].lifespan
          /\ ~Present(pre[i].id)
    /\ \E j \in DOMAIN particles :
          /\ ~particles[j].fixed
          /\ particles[j].age = particles[j].lifespan
          /\ particles[j].active

(***************************************************************************)
(* Wrap mode across an update (specification Spec)                         *)
(***************************************************************************)

\* C30: in mode 'wrap', the boundary phase of an update changes no
\* particle's velocity, and when the update returns every particle of the
\* collection has its centre within [-radius, width + radius] on x and
\* [-radius, height + radius] on y.
C30_WrapKeepsWithin ==
    [][/\ (pc = "applyBoundaryConditions" /\ boundaryMode = "wrap") =>
             /\ Len(particles') = Len(particles)
             /\ \A i \in DOMAIN particles :
                   particles'[i].velocity = particles[i].velocity
       /\ (call' = "update" /\ pc' = "idle" /\ boundaryMode' = "wrap") =>
             \A j \in DOMAIN particles' :
                 WithinWrap(particles'[j], bounds'.width, bounds'.height)]_vars

\* C30 witness: an update in mode 'wrap' has returned with a particle that
\* it moved across the low edge on x and put at width + radius.
C30_Witness ==
    /\ AfterUpdate
    /\ boundaryMode = "wrap"
    /\ \E j \in DOMAIN particles :
          /\ particles[j].position.x = Add(bounds.width, particles[j].radius)
          /\ particles[j].velocity.x < 0
          /\ Len(particles[j].trail) > 0
          /\ particles[j].trail[Len(particles[j].trail)].x < 0 - particles[j].radius
=============================================================================
